---- MODULE Spec2Model ----
(***************************************************************************)
(* A model of the detection and orientation pipeline of FlyffBot:          *)
(*   - the three non-maximum-suppression routines                          *)
(*       TemplateMatchDebugger.nms_boxes        (opencv/test_template.py)  *)
(*       TemplateMatchDetector._non_max_suppression (opencv/test_shape.py) *)
(*       TemplateMonsterDetector._nms           (opencv/test_map.py)       *)
(*   - MapPointDetector.merge_overlapping_points (map/detect_map_points.py)*)
(*   - TemplateMatchDebugger.match_template_multiscale and its time budget *)
(*   - the heading computation of HSVArrowDetector and the compass mapping *)
(*     of ArrowDetector (opencv/test_arrow.py)                             *)
(* Each component has its own specification (SpecNMS, SpecMerge, ...); the *)
(* variables of the other components stay at their idle values.            *)
(*                                                                         *)
(* Numbers.  Thresholds are percentages (the trackbar value, divided by    *)
(* 100.0 in the source); every comparison of a quotient with a threshold   *)
(* is made by cross-multiplication, so the model is exact where the source *)
(* uses floating point.  Rounding of the floating-point quotients is not   *)
(* modelled.                                                               *)
(***************************************************************************)
EXTENDS Integers, Sequences, FiniteSets, TLC

VARIABLES
    \* ---- non-maximum suppression ----
    nmsRoutine,     \* which routine runs: "nms_boxes", "_non_max_suppression", "_nms"
    nmsMatches,     \* the input list: records [x, y, w, h, score]
    nmsHigher,      \* is_higher_better of the caller of nms_boxes
    nmsThreshold,   \* overlap threshold, in percent
    nmsOrder,       \* order / indices / matches: the indices still to process
    nmsKeep,        \* keep / kept: the indices kept so far, in order
    nmsPc           \* "start", "loop", "done"

VARIABLES
    \* ---- MapPointDetector.merge_overlapping_points ----
    mergePoints,    \* points: the input list of Point records
    mergeI,         \* i: the index of the outer loop (1-based)
    mergeUsed,      \* used: the indices already absorbed by a cluster
    mergeClusters,  \* the value of the local list `cluster` of every emitted point
    mergeMerged,    \* merged: the output list
    mergePass,      \* 1 for the call on the detected points, 2 for the call on
                    \* the list the first call returned
    mergeFirst,     \* what the first call returned, once it is passed in again
    mergePc         \* "start", "loop", "done"

VARIABLES
    \* ---- TemplateMatchDebugger.match_template_multiscale ----
    tmP,            \* the parameters of the call
    tmK,            \* the position in `scales` of the loop (1-based)
    tmClock,        \* time.time() - start_time, in ticks
    tmIsTimeout,    \* is_timeout
    tmAllMatches,   \* all_matches
    tmLog,          \* what the loop did, in order: <<"timeout" | "skip" |
                    \* "resize" | "match" | "error", position of the scale>>
    tmExit,         \* how the loop was left: "none", "timeout" (break), "exhausted"
    tmResult,       \* what the call returned
    tmPc            \* "start", "loop", "post", "done"

VARIABLES
    \* ---- HSVArrowDetector._calculate_direction, ArrowDetector.draw_results ----
    arrContour,     \* contour: the points <<x, y>> of the boundary
    arrMethod,      \* direction_method
    arrHull,        \* hull: the indices cv2.convexHull returned
    arrResult,      \* what _calculate_direction did: [kind |-> "none"],
                    \* [kind |-> "angle", angle |-> degrees] or [kind |-> "raise"]
    arrTip,         \* tip_point of the convex-hull strategy, <<>> for None
    arrPath,        \* the branch of _direction_convex_hull that returned
    arrDrawEnd,     \* position and end point of the arrow draw_results draws
    arrPc           \* "start", "done", "drawn"

VARIABLES
    \* ---- ArrowDetector.angle_to_cardinal ----
    cardAngle,      \* angle, in half degrees
    cardResult,     \* the label returned
    cardPc          \* "start", "done"

VARIABLES
    \* ---- HSVMonsterDetector.detect, MapPointDetector.detect_points_from_mask ----
    exDetector,     \* "HSVMonsterDetector" or "MapPointDetector"
    exContours,     \* contours: what cv2.findContours returned
    exFilter,       \* min_area, max_area, circularity (percent)
    exI,            \* the position in `contours` of the loop (1-based)
    exOut,          \* monsters / points: the candidates appended so far
    exFrom,         \* for every candidate, the position of its contour
    exPc            \* "start", "loop", "done", "raised"

VARIABLES
    \* ---- TemplateMonsterDetector.detect ----
    mdP,            \* the parameters of the call, in percent, and whether a
                    \* template is loaded
    mdScale,        \* scale, in percent
    mdAllMatches,   \* all_matches
    mdVisited,      \* what the loop did so far: the set of <<"skip" | "match", scale>>
    mdResult,       \* what the call returned
    mdPc            \* "start", "loop", "done"

VARIABLES
    \* ---- TemplateArrowDetector.detect ----
    taP,            \* the parameters of the call and whether a template is loaded
    taAi,           \* the position of the outer loop in range(angle_start, ...)
    taSi,           \* the position of the inner loop in np.arange(scale_min, ...)
    taBestMatch,    \* best_match
    taBestScore,    \* best_score, in percent
    taVisited,      \* what the loops did: the set of <<"skip" | "match", angle, scale>>
    taMax,          \* the highest max_val of all correlations so far, -1 if none
    taResult,       \* what the call returned or raised
    taPc            \* "start", "loop", "done"

VARIABLES
    \* ---- Config and the threads of WebViewCapture ----
    config_lock,    \* the thread that holds config.config_lock, or "free"
    cookie,         \* config.cookie, a dict as a set of <<key, value>>
    cfgFile,        \* the configuration file: << >> when there is none, else
                    \* <<the cookie saved in it>>
    is_running,     \* WebViewCapture.is_running
    wvPc,           \* each thread's position
    wvCaller,       \* each thread's callers of save_cookies / save, innermost first
    wvCookies,      \* each thread's local `cookies`
    wvSaved         \* each thread: the result of its last config.save()

VARIABLES
    \* ---- the tuning loops (run_detector_with_trackbars, debug_with_trackbars) ----
    tlApp,          \* "map", "arrow" or "hsv": whose loop it is
    trackbars,      \* the positions of the trackbars
    last_params,    \* last_params / last_values: << >> for None, else <<tuple>>
    current_params, \* current_params / current_values of this iteration
    cached_display, \* << >> for None, else <<the tuple it was computed for>>
    cached_arrow,   \* the arrow loop's cached_arrow
    tlDetected,     \* the ROI-local position detect returned, and the ROI
    tlPrinted,      \* the position printed by the arrow loop
    tlSaved,        \* the position written by _save_results, with the
                    \* detection it belongs to
    tlPrevious,     \* last_params as it was when this iteration began
    tlRan,          \* whether this iteration ran the detection
    tlShown,        \* the frame on screen: what imshow was last given
    tlPc            \* "read", "process", "show", "key", "exit", "stopped"

VARIABLES
    \* ---- AdvancedColorDebugger.debug_with_trackbars ----
    t2Trackbars,    \* the positions of ROI_X, ROI_Y, ROI_W, ROI_H
    roi_rect,       \* self.roi_rect
    t2Image,        \* width and height of the extracted ROI image
    t2Pc            \* "read", "extract", "key", "exit", "raised"

VARIABLES
    \* ---- WebViewCapture.on_loaded, start_threads, stop_threads ----
    thLoaded,       \* how often the window's loaded event has fired
    thIsRunning,    \* self.is_running
    thThreads,      \* the live threads: each thread's position, "check" (the
                    \* loop's test of is_running) or "body"
    thClosed        \* on_closing has run

VARIABLES
    \* ---- Config.load and Config.save, one caller ----
    config_file,    \* config.config_file
    cfData,         \* the fields url, cookie, frequency, stats, target, enable,
                    \* slots, screenshot, as one value
    last_load_time, \* config.last_load_time
    cfFiles,        \* the files: what each path holds
    cfClock,        \* time.time()
    cfLast,         \* the last call: load or save, its argument and result
    cfBefore,       \* the Config as it was when the last call began
    cfLoadedFile    \* the path of the last load that succeeded

VARIABLES
    \* ---- Config.reload_if_needed, called by two threads ----
    rlClock,        \* time.time()
    rlLastLoadTime, \* config.last_load_time
    rlCurrentTime,  \* each thread's current_time
    rlPc,           \* where each thread is in reload_if_needed
    rlLoads         \* the times of the loads reload_if_needed has triggered

nmsVars == <<nmsRoutine, nmsMatches, nmsHigher, nmsThreshold, nmsOrder, nmsKeep, nmsPc>>

mergeVars ==
    <<mergePoints, mergeI, mergeUsed, mergeClusters, mergeMerged, mergePass, mergeFirst,
      mergePc>>

tmVars == <<tmP, tmK, tmClock, tmIsTimeout, tmAllMatches, tmLog, tmExit, tmResult, tmPc>>

arrVars == <<arrContour, arrMethod, arrHull, arrResult, arrTip, arrPath, arrDrawEnd, arrPc>>

cardVars == <<cardAngle, cardResult, cardPc>>

exVars == <<exDetector, exContours, exFilter, exI, exOut, exFrom, exPc>>

mdVars == <<mdP, mdScale, mdAllMatches, mdVisited, mdResult, mdPc>>

taVars ==
    <<taP, taAi, taSi, taBestMatch, taBestScore, taVisited, taMax, taResult, taPc>>

wvVars ==
    <<config_lock, cookie, cfgFile, is_running, wvPc, wvCaller, wvCookies, wvSaved>>

tlVars ==
    <<tlApp, trackbars, last_params, current_params, cached_display, cached_arrow, tlDetected, tlPrinted, tlSaved, tlPrevious, tlRan, tlShown, tlPc>>

t2Vars ==
    <<t2Trackbars, roi_rect, t2Image, t2Pc>>

thVars ==
    <<thLoaded, thIsRunning, thThreads, thClosed>>

cfVars ==
    <<config_file, cfData, last_load_time, cfFiles, cfClock, cfLast, cfBefore, cfLoadedFile>>

rlVars ==
    <<rlClock, rlLastLoadTime, rlCurrentTime, rlPc, rlLoads>>

vars == <<nmsVars, mergeVars, tmVars, arrVars, cardVars, exVars, mdVars, taVars, wvVars, tlVars, t2Vars, thVars, cfVars, rlVars>>

-----------------------------------------------------------------------------
(* Idle values: what a component's variables hold in the specifications of
   the other components *)

NmsIdle ==
    /\ nmsRoutine = "idle"
    /\ nmsMatches = <<>>
    /\ nmsHigher = TRUE
    /\ nmsThreshold = 0
    /\ nmsOrder = <<>>
    /\ nmsKeep = <<>>
    /\ nmsPc = "idle"

MergeIdle ==
    /\ mergePoints = <<>>
    /\ mergeI = 0
    /\ mergeUsed = {}
    /\ mergeClusters = <<>>
    /\ mergeMerged = <<>>
    /\ mergePass = 0
    /\ mergeFirst = <<>>
    /\ mergePc = "idle"

TmIdle ==
    /\ tmP = [scale_steps |-> 0]
    /\ tmK = 0
    /\ tmClock = 0
    /\ tmIsTimeout = FALSE
    /\ tmAllMatches = <<>>
    /\ tmLog = <<>>
    /\ tmExit = "none"
    /\ tmResult = [kind |-> "none"]
    /\ tmPc = "idle"

ArrowIdle ==
    /\ arrContour = <<>>
    /\ arrMethod = 0
    /\ arrHull = <<>>
    /\ arrResult = [kind |-> "pending"]
    /\ arrTip = <<>>
    /\ arrPath = "none"
    /\ arrDrawEnd = <<>>
    /\ arrPc = "idle"

CardIdle ==
    /\ cardAngle = 0
    /\ cardResult = ""
    /\ cardPc = "idle"

ExIdle ==
    /\ exDetector = "idle"
    /\ exContours = <<>>
    /\ exFilter = <<>>
    /\ exI = 0
    /\ exOut = <<>>
    /\ exFrom = <<>>
    /\ exPc = "idle"

MdIdle ==
    /\ mdP = <<>>
    /\ mdScale = 0
    /\ mdAllMatches = <<>>
    /\ mdVisited = {}
    /\ mdResult = [kind |-> "none"]
    /\ mdPc = "idle"

TaIdle ==
    /\ taP = <<>>
    /\ taAi = 0
    /\ taSi = 0
    /\ taBestMatch = [found |-> FALSE]
    /\ taBestScore = 0
    /\ taVisited = {}
    /\ taMax = -1
    /\ taResult = [kind |-> "none"]
    /\ taPc = "idle"

WvIdle ==
    /\ config_lock = "free"
    /\ cookie = {}
    /\ cfgFile = <<>>
    /\ is_running = FALSE
    /\ wvPc = <<>>
    /\ wvCaller = <<>>
    /\ wvCookies = <<>>
    /\ wvSaved = <<>>

TlIdle ==
    /\ tlApp = "idle"
    /\ trackbars = <<>>
    /\ last_params = <<>>
    /\ current_params = <<>>
    /\ cached_display = <<>>
    /\ cached_arrow = <<>>
    /\ tlDetected = <<>>
    /\ tlPrinted = <<>>
    /\ tlSaved = <<>>
    /\ tlPrevious = <<>>
    /\ tlRan = FALSE
    /\ tlShown = <<>>
    /\ tlPc = "idle"

T2Idle ==
    /\ t2Trackbars = <<>>
    /\ roi_rect = <<>>
    /\ t2Image = <<>>
    /\ t2Pc = "idle"

ThIdle ==
    /\ thLoaded = 0
    /\ thIsRunning = FALSE
    /\ thThreads = <<>>
    /\ thClosed = FALSE

CfIdle ==
    /\ config_file = ""
    /\ cfData = ""
    /\ last_load_time = 0
    /\ cfFiles = <<>>
    /\ cfClock = 0
    /\ cfLast = <<>>
    /\ cfBefore = <<>>
    /\ cfLoadedFile = ""

RlIdle ==
    /\ rlClock = 0
    /\ rlLastLoadTime = 0
    /\ rlCurrentTime = <<>>
    /\ rlPc = <<>>
    /\ rlLoads = <<>>

-----------------------------------------------------------------------------
(* General helpers *)

Max2(a, b) == IF a >= b THEN a ELSE b
Min2(a, b) == IF a <= b THEN a ELSE b
Abs(a) == IF a < 0 THEN -a ELSE a

Range(s) == {s[i] : i \in 1..Len(s)}

Reverse(s) == [i \in 1..Len(s) |-> s[Len(s) + 1 - i]]

\* The subsequence of s whose elements satisfy Test, in order (a list
\* comprehension, or a numpy boolean/where selection).
RECURSIVE SelectIdx(_, _, _)
SelectIdx(s, Test(_), i) ==
    IF i > Len(s) THEN <<>>
    ELSE (IF Test(s[i]) THEN <<s[i]>> ELSE <<>>) \o SelectIdx(s, Test, i + 1)

Perms(n) == {p \in [1..n -> 1..n] : \A i, j \in 1..n : i # j => p[i] # p[j]}

SeqsUpTo(S, n) == UNION {[1..k -> S] : k \in 0..n}

-----------------------------------------------------------------------------
(* Non-maximum suppression *)

\* Bounds of the inputs.
MaxBoxes == 2
MaxCoord == 2
ScoreValues == {1, 2}
TemplateSizes == {1, 2}
\* The thresholds the callers pass: the NMS_Thresh% / NMS_Threshold trackbar
\* default (30) and the constant of TemplateMatchDetector.detect (0.5).
NmsThresholds == {30, 50}

NmsRoutines == {"nms_boxes", "_non_max_suppression", "_nms"}

\* A match record as the three detectors build it; the template is scaled
\* uniformly, so w and h grow together.
MatchUniverse ==
    {[x |-> px, y |-> py, w |-> s, h |-> s, score |-> sc] :
        px \in 0..MaxCoord, py \in 0..1, s \in TemplateSizes, sc \in ScoreValues}

\* m['box'] = [x, y, x + scaled_w, y + scaled_h]; the same corners are built
\* from s['bbox'] in _non_max_suppression.
MatchBox(m) == [x1 |-> m.x, y1 |-> m.y, x2 |-> m.x + m.w, y2 |-> m.y + m.h]

\* scores = [m['score'] if is_higher_better else -m['score'] ...]
NmsScores(matches, higher) ==
    [i \in 1..Len(matches) |-> IF higher THEN matches[i].score ELSE -matches[i].score]

ShapeScores(shapes) == [i \in 1..Len(shapes) |-> shapes[i].score]

\* numpy argsort (default kind, not stable): any index order that sorts the
\* scores ascending; the orders of the indices in `rest`.
RECURSIVE AscendingOrders(_, _)
AscendingOrders(scores, rest) ==
    IF rest = {} THEN {<<>>}
    ELSE LET least == {i \in rest : \A j \in rest : scores[i] <= scores[j]}
         IN UNION {{<<i>> \o o : o \in AscendingOrders(scores, rest \ {i})} : i \in least}

ArgsortOrders(scores) == AscendingOrders(scores, 1..Len(scores))

\* A stable sort by descending key (Python's sorted with reverse=True keeps
\* equal keys in their input order): the indices in `rest`, sorted.
RECURSIVE StableDescending(_, _)
StableDescending(keys, rest) ==
    IF rest = {} THEN <<>>
    ELSE LET first == CHOOSE i \in rest :
                         \A j \in rest : \/ keys[i] > keys[j]
                                          \/ (keys[i] = keys[j] /\ i <= j)
         IN <<first>> \o StableDescending(keys, rest \ {first})

\* areas = (x2 - x1 + 1) * (y2 - y1 + 1)
BoxArea(b) == (b.x2 - b.x1 + 1) * (b.y2 - b.y1 + 1)

InterAreaNoPlusOne(a, b) ==
    Max2(0, Min2(a.x2, b.x2) - Max2(a.x1, b.x1))
  * Max2(0, Min2(a.y2, b.y2) - Max2(a.y1, b.y1))

\* w = max(0, xx2 - xx1 + 1); h = max(0, yy2 - yy1 + 1); w * h
InterArea(a, b) ==
    Max2(0, Min2(a.x2, b.x2) - Max2(a.x1, b.x1) + 1)
  * Max2(0, Min2(a.y2, b.y2) - Max2(a.y1, b.y1) + 1)

\* overlap = (w * h) / areas[other]; the test overlap <= threshold
OverlapAtMost(cur, other, thr) == InterArea(cur, other) * 100 <= thr * BoxArea(other)

\* ---- TemplateMatchDebugger.nms_boxes ----
NmsBoxesOrderAscending(scores, p) == p

\* order = scores_array.argsort()[::-1]
NmsBoxesOrder(scores, p) == Reverse(p)

nms_boxes_begin ==
    /\ nmsRoutine = "nms_boxes"
    /\ nmsPc = "start"
    /\ IF Len(nmsMatches) = 0
       THEN /\ nmsPc' = "done"
            /\ UNCHANGED nmsOrder
       ELSE /\ \E p \in ArgsortOrders(NmsScores(nmsMatches, nmsHigher)) :
                   nmsOrder' = NmsBoxesOrder(NmsScores(nmsMatches, nmsHigher), p)
            /\ nmsPc' = "loop"
    /\ UNCHANGED <<nmsRoutine, nmsMatches, nmsHigher, nmsThreshold, nmsKeep>>
    /\ UNCHANGED <<mergeVars, tmVars, arrVars, cardVars, exVars, mdVars, taVars, wvVars, tlVars, t2Vars, thVars, cfVars, rlVars>>

nms_boxes_loop ==
    /\ nmsRoutine = "nms_boxes"
    /\ nmsPc = "loop"
    /\ IF Len(nmsOrder) > 0
       THEN LET i == nmsOrder[1]
                Keeps(j) == OverlapAtMost(MatchBox(nmsMatches[i]),
                                          MatchBox(nmsMatches[j]), nmsThreshold)
            IN /\ nmsKeep' = Append(nmsKeep, i)
               /\ nmsOrder' = SelectIdx(Tail(nmsOrder), Keeps, 1)
               /\ UNCHANGED nmsPc
       ELSE /\ nmsPc' = "done"
            /\ UNCHANGED <<nmsOrder, nmsKeep>>
    /\ UNCHANGED <<nmsRoutine, nmsMatches, nmsHigher, nmsThreshold>>
    /\ UNCHANGED <<mergeVars, tmVars, arrVars, cardVars, exVars, mdVars, taVars, wvVars, tlVars, t2Vars, thVars, cfVars, rlVars>>

\* ---- TemplateMatchDetector._non_max_suppression ----
non_max_suppression_begin ==
    /\ nmsRoutine = "_non_max_suppression"
    /\ nmsPc = "start"
    /\ IF Len(nmsMatches) = 0
       THEN /\ nmsPc' = "done"
            /\ UNCHANGED nmsOrder
       ELSE /\ \E p \in ArgsortOrders(ShapeScores(nmsMatches)) : nmsOrder' = p
            /\ nmsPc' = "loop"
    /\ UNCHANGED <<nmsRoutine, nmsMatches, nmsHigher, nmsThreshold, nmsKeep>>
    /\ UNCHANGED <<mergeVars, tmVars, arrVars, cardVars, exVars, mdVars, taVars, wvVars, tlVars, t2Vars, thVars, cfVars, rlVars>>

non_max_suppression_loop ==
    /\ nmsRoutine = "_non_max_suppression"
    /\ nmsPc = "loop"
    /\ IF Len(nmsOrder) > 0
       THEN LET last == Len(nmsOrder)
                i == nmsOrder[last]
                Keeps(j) == OverlapAtMost(MatchBox(nmsMatches[i]),
                                          MatchBox(nmsMatches[j]), nmsThreshold)
            IN /\ nmsKeep' = Append(nmsKeep, i)
               /\ nmsOrder' = SelectIdx(SubSeq(nmsOrder, 1, last - 1), Keeps, 1)
               /\ UNCHANGED nmsPc
       ELSE /\ nmsPc' = "done"
            /\ UNCHANGED <<nmsOrder, nmsKeep>>
    /\ UNCHANGED <<nmsRoutine, nmsMatches, nmsHigher, nmsThreshold>>
    /\ UNCHANGED <<mergeVars, tmVars, arrVars, cardVars, exVars, mdVars, taVars, wvVars, tlVars, t2Vars, thVars, cfVars, rlVars>>

\* ---- TemplateMonsterDetector._nms ----
\* sorted(matches, key=score, reverse=True): Python's sort is stable, equal
\* scores keep their input order.
SortedByScoreDesc(matches) ==
    StableDescending(ShapeScores(matches), 1..Len(matches))

\* dist = sqrt(dx^2 + dy^2); avg_size = (w1 + w2) / 2;
\* dist < avg_size * threshold, squared and cleared of denominators.
IsOverlapping(m1, m2, thr) ==
    LET dx == Abs(m1.x - m2.x)
        dy == Abs(m1.y - m2.y)
        rhs == (m1.w + m2.w) * thr
    IN /\ rhs > 0
       /\ (dx * dx + dy * dy) * 200 * 200 < rhs * rhs

nms_begin ==
    /\ nmsRoutine = "_nms"
    /\ nmsPc = "start"
    /\ IF Len(nmsMatches) = 0
       THEN /\ nmsPc' = "done"
            /\ UNCHANGED nmsOrder
       ELSE /\ nmsOrder' = SortedByScoreDesc(nmsMatches)
            /\ nmsPc' = "loop"
    /\ UNCHANGED <<nmsRoutine, nmsMatches, nmsHigher, nmsThreshold, nmsKeep>>
    /\ UNCHANGED <<mergeVars, tmVars, arrVars, cardVars, exVars, mdVars, taVars, wvVars, tlVars, t2Vars, thVars, cfVars, rlVars>>

nms_loop ==
    /\ nmsRoutine = "_nms"
    /\ nmsPc = "loop"
    /\ IF Len(nmsOrder) > 0
       THEN LET current == nmsOrder[1]
                Keeps(j) == ~IsOverlapping(nmsMatches[current], nmsMatches[j],
                                           nmsThreshold)
            IN /\ nmsKeep' = Append(nmsKeep, current)
               /\ nmsOrder' = SelectIdx(Tail(nmsOrder), Keeps, 1)
               /\ UNCHANGED nmsPc
       ELSE /\ nmsPc' = "done"
            /\ UNCHANGED <<nmsOrder, nmsKeep>>
    /\ UNCHANGED <<nmsRoutine, nmsMatches, nmsHigher, nmsThreshold>>
    /\ UNCHANGED <<mergeVars, tmVars, arrVars, cardVars, exVars, mdVars, taVars, wvVars, tlVars, t2Vars, thVars, cfVars, rlVars>>

NmsInit ==
    /\ nmsRoutine \in NmsRoutines
    /\ nmsMatches \in SeqsUpTo(MatchUniverse, MaxBoxes)
    /\ nmsHigher \in IF nmsRoutine = "nms_boxes" THEN BOOLEAN ELSE {TRUE}
    /\ nmsThreshold \in NmsThresholds
    /\ nmsOrder = <<>>
    /\ nmsKeep = <<>>
    /\ nmsPc = "start"

-----------------------------------------------------------------------------
(* Claims about non-maximum suppression *)

\* The pixels a box covers, corners included.
BoxPixels(b) == (b.x1 .. b.x2) \X (b.y1 .. b.y2)

\* IoU(a, b) > thr / 100, counted in pixels.
IoUExceeds(a, b, thr) ==
    Cardinality(BoxPixels(a) \cap BoxPixels(b)) * 100
        > thr * Cardinality(BoxPixels(a) \cup BoxPixels(b))

\* C1: nms_boxes and _non_max_suppression never return two boxes whose
\* intersection-over-union (inclusive-pixel areas) exceeds the threshold.
C1_NoTwoKeptBoxesOverlap ==
    (nmsRoutine \in {"nms_boxes", "_non_max_suppression"} /\ nmsPc = "done") =>
        \A a, b \in 1..Len(nmsKeep) :
            a # b => ~IoUExceeds(MatchBox(nmsMatches[nmsKeep[a]]),
                                 MatchBox(nmsMatches[nmsKeep[b]]), nmsThreshold)

\* A run that suppressed one of two overlapping boxes and returned.
C1_Witness ==
    /\ nmsRoutine \in {"nms_boxes", "_non_max_suppression"}
    /\ nmsPc = "done"
    /\ Len(nmsMatches) = 2
    /\ Len(nmsKeep) = 1
    /\ IoUExceeds(MatchBox(nmsMatches[1]), MatchBox(nmsMatches[2]), nmsThreshold)

\* m1 is at least as good a match as m2 (raw scores; lower is better when
\* the metric of the caller of nms_boxes is a squared difference).
AtLeastAsGood(m1, m2) ==
    IF nmsRoutine = "nms_boxes" /\ ~nmsHigher
    THEN m1.score <= m2.score
    ELSE m1.score >= m2.score

\* C2: for a non-empty input, a best-scoring input match is in the output
\* of each of the three routines (it is the first one kept), and a match
\* that is strictly better than every other input match is never missing.
C2_BestMatchKept ==
    (nmsPc = "done" /\ Len(nmsMatches) > 0) =>
        /\ Len(nmsKeep) > 0
        /\ \A j \in 1..Len(nmsMatches) :
               AtLeastAsGood(nmsMatches[nmsKeep[1]], nmsMatches[j])
        /\ \A i \in 1..Len(nmsMatches) :
               (\A j \in 1..Len(nmsMatches) :
                    j # i => ~AtLeastAsGood(nmsMatches[j], nmsMatches[i]))
               => i \in Range(nmsKeep)

\* A run in which the best match overlapped a worse one, which was removed.
C2_Witness ==
    /\ nmsPc = "done"
    /\ Len(nmsMatches) = 2
    /\ Len(nmsKeep) = 1
    /\ nmsMatches[1].score # nmsMatches[2].score

\* The overlap of the boxes of two matches of TemplateMonsterDetector, each
\* centred on (x, y) and w wide, h high: lengths doubled, areas fourfold.
CentreBoxInter4(m1, m2) ==
    LET iw == Min2(2 * m1.x + m1.w, 2 * m2.x + m2.w) - Max2(2 * m1.x - m1.w, 2 * m2.x - m2.w)
        ih == Min2(2 * m1.y + m1.h, 2 * m2.y + m2.h) - Max2(2 * m1.y - m1.h, 2 * m2.y - m2.h)
    IN Max2(0, iw) * Max2(0, ih)

\* IoU(m1, m2) > thr / 100 for these boxes.
CentreBoxIoUExceeds(m1, m2, thr) ==
    LET inter == CentreBoxInter4(m1, m2)
    IN 100 * inter > thr * (4 * m1.w * m1.h + 4 * m2.w * m2.h - inter)

\* C13: _nms never returns two matches whose bounding boxes (centre x, y,
\* width w, height h) have an intersection-over-union above the threshold.
C13_NmsNoTwoKeptOverlap ==
    (nmsRoutine = "_nms" /\ nmsPc = "done") =>
        \A a, b \in 1..Len(nmsKeep) :
            a # b => ~CentreBoxIoUExceeds(nmsMatches[nmsKeep[a]],
                                          nmsMatches[nmsKeep[b]], nmsThreshold)

\* The order in which the loop of the routine takes the matches: nms_boxes
\* takes order[0], _non_max_suppression the last of indices.
ProcessingOrder == IF nmsRoutine = "nms_boxes" THEN nmsOrder ELSE Reverse(nmsOrder)

\* C14: nms_boxes and _non_max_suppression process matches with equal scores
\* in their input order; of two overlapping matches with the same score the
\* first of the input is kept and the later one is suppressed.
C14_TiesInInputOrder ==
    nmsRoutine \in {"nms_boxes", "_non_max_suppression"} =>
        /\ (nmsPc = "loop" /\ nmsKeep = <<>>) =>
              \A a, b \in 1..Len(nmsOrder) :
                 LET i == ProcessingOrder[a]
                     j == ProcessingOrder[b]
                 IN (nmsMatches[i].score = nmsMatches[j].score /\ i < j) => a < b
        /\ (nmsPc = "done" /\ Len(nmsMatches) = 2
            /\ nmsMatches[1].score = nmsMatches[2].score
            /\ ~OverlapAtMost(MatchBox(nmsMatches[1]), MatchBox(nmsMatches[2]), nmsThreshold)
            /\ ~OverlapAtMost(MatchBox(nmsMatches[2]), MatchBox(nmsMatches[1]), nmsThreshold))
              => nmsKeep = <<1>>

-----------------------------------------------------------------------------
(* MapPointDetector.merge_overlapping_points *)

MaxPoints == 3

\* self.merge_distance
merge_distance == 10

\* Pixel coordinates of the detected points: pairs at distance below, equal
\* to and above merge_distance occur.
PointXs == {0, 4, 10, 11}
PointYs == {10, 11}
\* color_type and radius of a detected point.
PointAttrs == {<<"orange", 2>>, <<"red", 2>>, <<"red", 4>>}

\* Exact fractions [num, den], den > 0, in lowest terms, for the radius
\* (a float in the source).
RECURSIVE GCD(_, _)
GCD(a, b) == IF b = 0 THEN a ELSE GCD(b, a % b)

Rat(n, d) ==
    LET g == GCD(Abs(n), d)
    IN [num |-> n \div g, den |-> d \div g]

RatAdd(a, b) == Rat(a.num * b.den + b.num * a.den, a.den * b.den)

RatDivInt(a, n) == Rat(a.num, a.den * n)

PointUniverse ==
    {[x |-> px, y |-> py, color_type |-> a[1], radius |-> Rat(a[2], 1)] :
        px \in PointXs, py \in PointYs, a \in PointAttrs}

RECURSIVE SumInts(_)
SumInts(s) == IF Len(s) = 0 THEN 0 ELSE s[1] + SumInts(Tail(s))

RECURSIVE SumRats(_)
SumRats(s) == IF Len(s) = 0 THEN Rat(0, 1) ELSE RatAdd(s[1], SumRats(Tail(s)))

\* int(v) of a quotient a / n, n > 0: truncation toward zero
IntOfQuotient(a, n) == IF a >= 0 THEN a \div n ELSE -((-a) \div n)

\* distance = sqrt((x1 - x2)**2 + (y1 - y2)**2); distance < self.merge_distance
WithinMergeDistance(p1, p2) ==
    (p1.x - p2.x) * (p1.x - p2.x) + (p1.y - p2.y) * (p1.y - p2.y)
        < merge_distance * merge_distance

\* The inner loop without its test `if j in used: continue`.
ClusterOfIgnoringUsed(points, i, used) ==
    LET Near(j) == WithinMergeDistance(points[i], points[j])
    IN <<i>> \o SelectIdx([k \in 1..(Len(points) - i) |-> i + k], Near, 1)

\* cluster = [point1] followed by every later point that is not used and is
\* closer than merge_distance to point1 (as indices into points).
ClusterOf(points, i, used) ==
    LET Near(j) == j \notin used /\ WithinMergeDistance(points[i], points[j])
    IN <<i>> \o SelectIdx([k \in 1..(Len(points) - i) |-> i + k], Near, 1)

ClusterColorOfLast(points, cluster) == points[cluster[Len(cluster)]].color_type

\* point1.color_type
ClusterColor(points, cluster) == points[cluster[1]].color_type

\* Point(avg_x, avg_y, point1.color_type, avg_radius)
ClusterPoint(points, cluster) ==
    LET n == Len(cluster)
    IN [x |-> IntOfQuotient(SumInts([k \in 1..n |-> points[cluster[k]].x]), n),
        y |-> IntOfQuotient(SumInts([k \in 1..n |-> points[cluster[k]].y]), n),
        color_type |-> ClusterColor(points, cluster),
        radius |-> RatDivInt(SumRats([k \in 1..n |-> points[cluster[k]].radius]), n)]

merge_begin ==
    /\ mergePc = "start"
    /\ IF Len(mergePoints) <= 1
       THEN /\ mergeMerged' = mergePoints
            /\ mergePc' = "done"
            /\ UNCHANGED mergeI
       ELSE /\ mergeI' = 1
            /\ mergePc' = "loop"
            /\ UNCHANGED mergeMerged
    /\ UNCHANGED <<mergePoints, mergeUsed, mergeClusters, mergePass, mergeFirst>>
    /\ UNCHANGED <<nmsVars, tmVars, arrVars, cardVars, exVars, mdVars, taVars, wvVars, tlVars, t2Vars, thVars, cfVars, rlVars>>

merge_loop ==
    /\ mergePc = "loop"
    /\ IF mergeI <= Len(mergePoints)
       THEN /\ IF mergeI \in mergeUsed
               THEN UNCHANGED <<mergeUsed, mergeClusters, mergeMerged>>
               ELSE LET cluster == ClusterOf(mergePoints, mergeI, mergeUsed)
                    IN /\ mergeUsed' = mergeUsed \cup Range(Tail(cluster))
                       /\ mergeClusters' = Append(mergeClusters, cluster)
                       /\ mergeMerged' =
                              Append(mergeMerged, ClusterPoint(mergePoints, cluster))
            /\ mergeI' = mergeI + 1
            /\ UNCHANGED mergePc
       ELSE /\ mergePc' = "done"
            /\ UNCHANGED <<mergeI, mergeUsed, mergeClusters, mergeMerged>>
    /\ UNCHANGED <<mergePoints, mergePass, mergeFirst>>
    /\ UNCHANGED <<nmsVars, tmVars, arrVars, cardVars, exVars, mdVars, taVars, wvVars, tlVars, t2Vars, thVars, cfVars, rlVars>>

\* merge_overlapping_points is called again, on the list it returned.
merge_again ==
    /\ mergePc = "done"
    /\ mergePass = 1
    /\ mergeFirst' = mergeMerged
    /\ mergePoints' = mergeMerged
    /\ mergePass' = 2
    /\ mergeI' = 0
    /\ mergeUsed' = {}
    /\ mergeClusters' = <<>>
    /\ mergeMerged' = <<>>
    /\ mergePc' = "start"
    /\ UNCHANGED <<nmsVars, tmVars, arrVars, cardVars, exVars, mdVars, taVars, wvVars, tlVars, t2Vars, thVars, cfVars, rlVars>>

MergeInit ==
    /\ mergePoints \in SeqsUpTo(PointUniverse, MaxPoints)
    /\ mergeI = 0
    /\ mergeUsed = {}
    /\ mergeClusters = <<>>
    /\ mergeMerged = <<>>
    /\ mergePass = 1
    /\ mergeFirst = <<>>
    /\ mergePc = "start"

-----------------------------------------------------------------------------
(* Claims about merge_overlapping_points *)

\* The loop of merge_overlapping_points ran (two or more input points) and
\* the method returned.
MergeLoopDone == mergePc = "done" /\ Len(mergePoints) >= 2

\* Point j lies within the merge radius of point s: their Euclidean distance
\* is below merge_distance.
C3_Within(s, j) ==
    (mergePoints[s].x - mergePoints[j].x) * (mergePoints[s].x - mergePoints[j].x)
  + (mergePoints[s].y - mergePoints[j].y) * (mergePoints[s].y - mergePoints[j].y)
        < 100

\* j is a seed iff no earlier seed lies within the merge radius of it.
RECURSIVE C3_IsSeed(_)
C3_IsSeed(j) == \A s \in 1..(j - 1) : C3_IsSeed(s) => ~C3_Within(s, j)

C3_Seeds == {j \in 1..Len(mergePoints) : C3_IsSeed(j)}

\* The seed a point belongs to: itself, or the earliest seed within the radius.
C3_SeedOf(j) ==
    IF C3_IsSeed(j) THEN j
    ELSE CHOOSE s \in C3_Seeds :
            /\ s < j /\ C3_Within(s, j)
            /\ \A r \in C3_Seeds : (r < j /\ C3_Within(r, j)) => s <= r

\* C3: merge_overlapping_points is a seed (star) clustering in input order:
\* every input point is in exactly one cluster; a point starts a cluster iff
\* no earlier seed is within the merge radius (distance < merge_distance) of
\* it, otherwise it joins the earliest such seed, whatever its distance to
\* the other members; one output point per seed, in seed order.
C3_SeedClustering ==
    /\ (mergePc = "done" /\ Len(mergePoints) <= 1) => mergeMerged = mergePoints
    /\ MergeLoopDone =>
        /\ Len(mergeMerged) = Cardinality(C3_Seeds)
        /\ Len(mergeClusters) = Cardinality(C3_Seeds)
        /\ \A k \in 1..Len(mergeClusters) :
              /\ mergeClusters[k][1] \in C3_Seeds
              /\ \A l \in 1..Len(mergeClusters) :
                    k < l => mergeClusters[k][1] < mergeClusters[l][1]
              /\ \A a, b \in 1..Len(mergeClusters[k]) :
                    a # b => mergeClusters[k][a] # mergeClusters[k][b]
        /\ \A j \in 1..Len(mergePoints) :
              \A k \in 1..Len(mergeClusters) :
                  j \in Range(mergeClusters[k]) <=> mergeClusters[k][1] = C3_SeedOf(j)

\* A chain: the second seed's neighbour was absorbed by the first seed, and
\* the first seed's cluster does not reach the second seed.
C3_Witness ==
    /\ MergeLoopDone
    /\ Len(mergePoints) = 3
    /\ mergeClusters = << <<1, 3>>, <<2>> >>
    /\ C3_Within(2, 3)

\* v is an integer nearest to sum / n.
NearestInteger(v, sum, n) == 2 * Abs(n * v - sum) <= n

\* C4: the emitted x and y are the mean of the members' x and y rounded to
\* the nearest integer pixel (members with x = 10, 11, 11 give x = 11).
C4_CentroidRoundedToNearest ==
    MergeLoopDone =>
        \A k \in 1..Len(mergeMerged) :
            LET c == mergeClusters[k]
                n == Len(c)
            IN /\ NearestInteger(mergeMerged[k].x,
                                 SumInts([m \in 1..n |-> mergePoints[c[m]].x]), n)
               /\ NearestInteger(mergeMerged[k].y,
                                 SumInts([m \in 1..n |-> mergePoints[c[m]].y]), n)

RECURSIVE C5_DenProduct(_, _)
C5_DenProduct(c, m) ==
    IF m > Len(c) THEN 1 ELSE mergePoints[c[m]].radius.den * C5_DenProduct(c, m + 1)

\* The radius of input point j, times the common denominator d.
C5_InputRadius(j, d) ==
    mergePoints[j].radius.num * (d \div mergePoints[j].radius.den)

C15_MergeIdempotent ==
    (mergePc = "done" /\ mergePass = 2) => mergeMerged = mergeFirst

-----------------------------------------------------------------------------
(* TemplateMatchDebugger.match_template_multiscale *)

\* Bounds: sizes in pixels of the (square) template and image, the number
\* of scales, and the clock: the time budget and the longest single step,
\* in ticks.
TmTemplateSize == 5
TmImageSize == 8
MaxScaleSteps == 2
TmTimeoutTicks == 1
MaxStepTicks == 2

\* Trackbar positions Scale_Min%, Scale_Max% and Resize%.
TmScaleMins == {50, 100}
TmScaleMaxs == {150, 200}
TmResizes == {50, 100}
\* The columns of row 0 of the correlation result that are looked at, the
\* values of the result and the match threshold (on one scale).
TmColumns == {0, 1}
TmRawScores == {1, 2, 3}
TmThresholds == {2}
TmTopNs == {1, 2}

TmParams ==
    [scale_min : TmScaleMins, scale_max : TmScaleMaxs, scale_steps : 1..MaxScaleSteps,
     resize : TmResizes, higher : BOOLEAN, threshold : TmThresholds]

\* int(size * resize_factor) when resize_factor < 1.0
Resized(size, resize) == IF resize < 100 THEN (size * resize) \div 100 ELSE size

\* scales = [1.0] if scale_steps <= 1 else np.linspace(scale_min, scale_max,
\* scale_steps); a scale is the fraction [num, den].
TmScales(p) ==
    IF p.scale_steps <= 1
    THEN << [num |-> 1, den |-> 1] >>
    ELSE [k \in 1..p.scale_steps |->
            [num |-> p.scale_min * (p.scale_steps - 1)
                        + (k - 1) * (p.scale_max - p.scale_min),
             den |-> 100 * (p.scale_steps - 1)]]

ExceedsImageNever(size, image) == FALSE

\* new_w > gray.shape[1] or new_h > gray.shape[0], for a square template and
\* a square image
ExceedsImage(size, image) == size > image

\* scaled_w = int(w * scale)
ScaledSize(size, scale) == (size * scale.num) \div scale.den

\* if scaled_w < 3 or scaled_h < 3: continue
\* if scaled_w > image_gray.shape[1] or scaled_h > image_gray.shape[0]: continue
TmSkipsScale(p, scale) ==
    LET s == ScaledSize(Resized(TmTemplateSize, p.resize), scale)
    IN s < 3 \/ ExceedsImage(s, Resized(TmImageSize, p.resize))

\* time.time() - start_time > timeout
TimedOut(clock) == clock > TmTimeoutTicks

IsTimeoutLeftAsIs(flag) == flag

\* is_timeout = True
IsTimeoutSet(flag) == TRUE

\* The clock stops counting once the budget is exceeded.
ClockPlus(clock, d) == Min2(clock + d, TmTimeoutTicks + 1)

\* The correlation results a scale can give: a value for each looked-at
\* column of row 0 of `result`.
TmResults(p, scale) ==
    LET s == ScaledSize(Resized(TmTemplateSize, p.resize), scale)
    IN [{x \in TmColumns : x <= Resized(TmImageSize, p.resize) - s} -> TmRawScores]

\* locations = np.where(result >= threshold) or np.where(result <= threshold);
\* the x of the locations, ascending.
TmLocations(p, result) ==
    LET Passes(x) == IF p.higher THEN result[x] >= p.threshold
                     ELSE result[x] <= p.threshold
        n == Cardinality(DOMAIN result)
    IN SelectIdx([k \in 1..n |-> k - 1], Passes, 1)

\* int(v / resize_factor)
Unresized(v, resize) == (v * 100) \div resize

\* The loop `for pt in zip(*locations[::-1])`: scaled_w and scaled_h are the
\* loop's running values, reassigned for every match when resize_factor < 1.
RECURSIVE TmCollect(_, _, _, _, _, _)
TmCollect(p, result, locs, scalePos, sw, sh) ==
    IF Len(locs) = 0 THEN <<>>
    ELSE LET small == p.resize < 100
             x == IF small THEN Unresized(locs[1], p.resize) ELSE locs[1]
             y == 0
             w == IF small THEN Unresized(sw, p.resize) ELSE sw
             h == IF small THEN Unresized(sh, p.resize) ELSE sh
         IN << [x |-> x, y |-> y, w |-> w, h |-> h, score |-> result[locs[1]],
                scale |-> scalePos] >>
            \o TmCollect(p, result, Tail(locs), scalePos, w, h)

\* keep of nms_boxes for a given first order, as one function.
RECURSIVE NmsBoxesKeep(_, _, _)
NmsBoxesKeep(matches, order, thr) ==
    IF Len(order) = 0 THEN <<>>
    ELSE LET Keeps(j) == OverlapAtMost(MatchBox(matches[order[1]]),
                                       MatchBox(matches[j]), thr)
         IN <<order[1]>> \o NmsBoxesKeep(matches, SelectIdx(Tail(order), Keeps, 1), thr)

\* sorted(all_matches, key=score, reverse=True) when is_higher_better, else
\* sorted(all_matches, key=score): both stable.
TmSortedIdx(matches, higher) ==
    StableDescending(NmsScores(matches, higher), 1..Len(matches))

\* The part of the function after the scale loop: the list it returns.
TmFiltered(matches, higher, result_method, top_n, nms_threshold, tie) ==
    LET n == Len(matches)
    IN CASE result_method = 0 ->
              IF n = 0 THEN <<>>
              ELSE LET keep == NmsBoxesKeep(matches,
                                   NmsBoxesOrder(NmsScores(matches, higher), tie),
                                   nms_threshold)
                   IN [k \in 1..Len(keep) |-> matches[keep[k]]]
         [] result_method = 1 ->
              \* max / min return the first best element
              IF n = 0 THEN <<>>
              ELSE << matches[TmSortedIdx(matches, higher)[1]] >>
         [] result_method = 2 ->
              LET q == TmSortedIdx(matches, higher)
              IN [k \in 1..Min2(top_n, n) |-> matches[q[k]]]
         [] OTHER -> matches

\* start_time = time.time(); the optional resize and the grayscale conversion
\* take time before the loop starts.
tm_begin ==
    /\ tmPc = "start"
    /\ \E d \in 0..1 : tmClock' = ClockPlus(tmClock, d)
    /\ tmK' = 1
    /\ tmPc' = "loop"
    /\ UNCHANGED <<tmP, tmIsTimeout, tmAllMatches, tmLog, tmExit, tmResult>>
    /\ UNCHANGED <<nmsVars, mergeVars, arrVars, cardVars, exVars, mdVars, taVars, wvVars, tlVars, t2Vars, thVars, cfVars, rlVars>>

\* One iteration of `for scale in scales`.
tm_scale ==
    /\ tmPc = "loop"
    /\ tmK <= Len(TmScales(tmP))
    /\ LET scale == TmScales(tmP)[tmK]
           s == ScaledSize(Resized(TmTemplateSize, tmP.resize), scale)
       IN IF TimedOut(tmClock)
          THEN /\ tmIsTimeout' = IsTimeoutSet(tmIsTimeout)
               /\ tmExit' = "timeout"
               /\ tmLog' = Append(tmLog, <<"timeout", tmK>>)
               /\ tmPc' = "post"
               /\ UNCHANGED <<tmK, tmClock, tmAllMatches>>
          ELSE IF TmSkipsScale(tmP, scale)
          THEN /\ tmK' = tmK + 1
               /\ tmLog' = Append(tmLog, <<"skip", tmK>>)
               /\ UNCHANGED <<tmClock, tmIsTimeout, tmAllMatches, tmExit, tmPc>>
          ELSE \E d \in 0..MaxStepTicks :
               \/ \* cv2.matchTemplate raises cv2.error: continue
                  /\ tmClock' = ClockPlus(tmClock, d)
                  /\ tmLog' = tmLog \o << <<"resize", tmK>>, <<"error", tmK>> >>
                  /\ tmK' = tmK + 1
                  /\ UNCHANGED <<tmIsTimeout, tmAllMatches, tmExit, tmPc>>
               \/ \E result \in TmResults(tmP, scale) :
                  IF TimedOut(ClockPlus(tmClock, d))
                  THEN /\ tmClock' = ClockPlus(tmClock, d)
                       /\ tmIsTimeout' = IsTimeoutSet(tmIsTimeout)
                       /\ tmExit' = "timeout"
                       /\ tmLog' = tmLog \o << <<"resize", tmK>>,
                                              <<"match", tmK, Len(TmLocations(tmP, result))>>,
                                              <<"timeout", tmK>> >>
                       /\ tmPc' = "post"
                       /\ UNCHANGED <<tmK, tmAllMatches>>
                  ELSE /\ \E d2 \in 0..1 : tmClock' = ClockPlus(ClockPlus(tmClock, d), d2)
                       /\ tmAllMatches' = tmAllMatches
                             \o TmCollect(tmP, result, TmLocations(tmP, result), tmK, s, s)
                       /\ tmLog' = tmLog \o << <<"resize", tmK>>,
                                              <<"match", tmK, Len(TmLocations(tmP, result))>> >>
                       /\ tmK' = tmK + 1
                       /\ UNCHANGED <<tmIsTimeout, tmExit, tmPc>>
    /\ UNCHANGED <<tmP, tmResult>>
    /\ UNCHANGED <<nmsVars, mergeVars, arrVars, cardVars, exVars, mdVars, taVars, wvVars, tlVars, t2Vars, thVars, cfVars, rlVars>>

\* The for loop runs out of scales.
tm_scales_exhausted ==
    /\ tmPc = "loop"
    /\ tmK > Len(TmScales(tmP))
    /\ tmExit' = "exhausted"
    /\ tmPc' = "post"
    /\ UNCHANGED <<tmP, tmK, tmClock, tmIsTimeout, tmAllMatches, tmLog, tmResult>>
    /\ UNCHANGED <<nmsVars, mergeVars, arrVars, cardVars, exVars, mdVars, taVars, wvVars, tlVars, t2Vars, thVars, cfVars, rlVars>>

\* The result processing by result_method and the return.
tm_return ==
    /\ tmPc = "post"
    /\ \E result_method \in 0..3 :
       \E top_n \in IF result_method = 2 THEN TmTopNs ELSE {1} :
       \E nms_threshold \in IF result_method = 0 THEN NmsThresholds ELSE {0} :
       \E tie \in IF result_method = 0
                  THEN ArgsortOrders(NmsScores(tmAllMatches, tmP.higher))
                  ELSE {<<>>} :
          tmResult' = [kind |-> "returned",
                       result_method |-> result_method,
                       matches |-> TmFiltered(tmAllMatches, tmP.higher, result_method,
                                              top_n, nms_threshold, tie),
                       is_timeout |-> tmIsTimeout]
    /\ tmPc' = "done"
    /\ UNCHANGED <<tmP, tmK, tmClock, tmIsTimeout, tmAllMatches, tmLog, tmExit>>
    /\ UNCHANGED <<nmsVars, mergeVars, arrVars, cardVars, exVars, mdVars, taVars, wvVars, tlVars, t2Vars, thVars, cfVars, rlVars>>

TmInit ==
    /\ tmP \in TmParams
    /\ tmK = 0
    /\ tmClock = 0
    /\ tmIsTimeout = FALSE
    /\ tmAllMatches = <<>>
    /\ tmLog = <<>>
    /\ tmExit = "none"
    /\ tmResult = [kind |-> "none"]
    /\ tmPc = "start"

-----------------------------------------------------------------------------
(* Claims about match_template_multiscale *)

TmLoopWork == {"resize", "match", "error"}

\* The call can go on: some step of it is possible.
TmCanStep == ENABLED (tm_begin \/ tm_scale \/ tm_scales_exhausted \/ tm_return)

\* C6: match_template_multiscale never raises because of the time budget:
\* every call runs on until it returns a list of matches and the flag; the
\* flag is_timeout is true iff the scale loop was left by the break of a
\* timeout check; after a timeout check fired, no scale is resized or
\* correlated; with no collected match, result methods 0 and 1 return the
\* empty list together with the flag.
C6_TimeoutIsAFlag ==
    /\ tmPc \in {"start", "loop", "post"} => TmCanStep
    /\ tmIsTimeout <=> tmExit = "timeout"
    /\ \A i, j \in 1..Len(tmLog) :
          (i < j /\ tmLog[i][1] = "timeout") => tmLog[j][1] \notin TmLoopWork
    /\ tmExit = "timeout" => tmLog[Len(tmLog)][1] = "timeout"
    /\ tmPc = "done" =>
          /\ tmResult.kind = "returned"
          /\ tmResult.is_timeout = (tmExit = "timeout")
          /\ \A k \in 1..Len(tmResult.matches) :
                \E m \in 1..Len(tmAllMatches) : tmResult.matches[k] = tmAllMatches[m]
          /\ Len(tmAllMatches) = 0 => tmResult.matches = <<>>

\* A call whose budget ran out during the first correlation, with scales
\* left to search, and which returned the empty list and the flag on the
\* early return path of result method 0 or 1.
C6_Witness ==
    /\ tmPc = "done"
    /\ tmResult.is_timeout
    /\ tmResult.result_method \in {0, 1}
    /\ tmResult.matches = <<>>
    /\ tmK < Len(TmScales(tmP))
    /\ \E i \in 1..Len(tmLog) : tmLog[i][1] = "match"

\* C11: every match record match_template_multiscale returns carries its
\* score on a higher-is-better scale, whatever the metric and the
\* result_method: a better placement (a higher correlation for the
\* higher-is-better metrics, a lower one for the SQDIFF family) never has the
\* smaller stored score; so the best match of result method 1 has the
\* greatest stored score of all collected matches and the list of result
\* method 2, best first, has descending stored scores.
C11_StoredScoreHigherIsBetter ==
    tmPc = "done"
        => LET ms == tmResult.matches
               Better(a, b) == IF tmP.higher THEN a.score > b.score ELSE a.score < b.score
           IN /\ \A i, j \in 1..Len(ms) : Better(ms[i], ms[j]) => ms[i].score >= ms[j].score
              /\ (tmResult.result_method = 1 /\ Len(ms) > 0)
                    => \A k \in 1..Len(tmAllMatches) : ms[1].score >= tmAllMatches[k].score
              /\ tmResult.result_method = 2
                    => \A i, j \in 1..Len(ms) : i < j => ms[i].score >= ms[j].score


-----------------------------------------------------------------------------
(* HSVArrowDetector._calculate_direction, ArrowDetector.draw_results *)

\* Contours: lists of pixel points <<x, y>> in image coordinates (y grows
\* downwards).  Four darts (tip, wing, notch, wing) pointing up, right, down
\* and left, a square, two ten-point lenses whose corners are all blunt, and
\* the degenerate contours: empty, one point, two points, three points on a
\* line.
DartUp == << <<4, 0>>, <<8, 8>>, <<4, 6>>, <<0, 8>> >>
DartRight == << <<8, 4>>, <<0, 8>>, <<2, 4>>, <<0, 0>> >>
DartDown == << <<4, 8>>, <<0, 0>>, <<4, 2>>, <<8, 0>> >>
DartLeft == << <<0, 4>>, <<8, 0>>, <<6, 4>>, <<8, 8>> >>
Square == << <<0, 0>>, <<4, 0>>, <<4, 4>>, <<0, 4>> >>
LensTall ==
    << <<3, 0>>, <<5, 1>>, <<6, 3>>, <<6, 5>>, <<5, 7>>,
       <<3, 8>>, <<1, 7>>, <<0, 5>>, <<0, 3>>, <<1, 1>> >>
\* A hexagon whose sharpest corners are between 90 and 120 degrees.
Hexagon == << <<1, 0>>, <<3, 0>>, <<4, 2>>, <<3, 4>>, <<1, 4>>, <<0, 2>> >>
LensWide == [i \in 1..Len(LensTall) |-> <<LensTall[i][2], LensTall[i][1]>>]
ShortContours == { <<>>, << <<2, 2>> >>, << <<0, 0>>, <<4, 0>> >> }
LineContour == << <<0, 0>>, <<2, 0>>, <<4, 0>> >>

\* Every contour is also tried moved by an offset.
MaxOffset == 1

Moved(contour, ox, oy) ==
    [i \in 1..Len(contour) |-> <<contour[i][1] + ox, contour[i][2] + oy>>]

ArrowContours ==
    {Moved(c, ox, oy) :
        c \in {DartUp, DartRight, DartDown, DartLeft, Square, LensTall, LensWide,
               Hexagon, LineContour} \cup ShortContours,
        ox \in 0..MaxOffset, oy \in 0..MaxOffset}

\* direction_method: 0 = MinAreaRect, 1 = ConvexHull, 2 = PCA
DirectionMethods == {0, 1, 2}

\* sin(k degrees) * 10^6 for k = 0..90 (entry k + 1).
SinTable ==
    <<0, 17452, 34899, 52336, 69756, 87156, 104528, 121869, 139173, 156434,
       173648, 190809, 207912, 224951, 241922, 258819, 275637, 292372, 309017, 325568,
       342020, 358368, 374607, 390731, 406737, 422618, 438371, 453990, 469472, 484810,
       500000, 515038, 529919, 544639, 559193, 573576, 587785, 601815, 615661, 629320,
       642788, 656059, 669131, 681998, 694658, 707107, 719340, 731354, 743145, 754710,
       766044, 777146, 788011, 798636, 809017, 819152, 829038, 838671, 848048, 857167,
       866025, 874620, 882948, 891007, 898794, 906308, 913545, 920505, 927184, 933580,
       939693, 945519, 951057, 956305, 961262, 965926, 970296, 974370, 978148, 981627,
       984808, 987688, 990268, 992546, 994522, 996195, 997564, 998630, 999391, 999848,
       1000000>>

\* The unit of SinTable: sin(90 degrees).
One == SinTable[91]

Sign(a) == IF a > 0 THEN 1 ELSE IF a < 0 THEN -1 ELSE 0

\* The angle of the direction (dx, dy), dx >= 0, dy >= 0, in whole degrees,
\* rounded down: exact for the multiples of 45 degrees.
QuadrantDegrees(dx, dy) ==
    CHOOSE k \in 0..90 :
        /\ SinTable[k + 1] * dx <= SinTable[91 - k] * dy
        /\ \A l \in (k + 1)..90 : SinTable[l + 1] * dx > SinTable[91 - l] * dy

\* np.degrees(np.arctan2(dy, dx)), in whole degrees rounded down; exact when
\* the direction is a multiple of 45 degrees.
Atan2Degrees(dy, dx) ==
    IF dx = 0 /\ dy = 0 THEN 0
    ELSE LET a == QuadrantDegrees(Abs(dx), Abs(dy))
             exact == dx = 0 \/ dy = 0 \/ Abs(dx) = Abs(dy)
             up == IF exact THEN a ELSE a + 1
         IN IF dy >= 0 THEN (IF dx >= 0 THEN a ELSE 180 - up)
            ELSE (IF dx >= 0 THEN -up ELSE a - 180)

\* game_angle = (90 - math_angle) % 360
GameAngle(math_angle) == (90 - math_angle) % 360

\* np.sin and np.cos of a whole number of degrees, times 10^6.
SinDegrees(a) ==
    LET r == a % 360
    IN IF r <= 90 THEN SinTable[r + 1]
       ELSE IF r <= 180 THEN SinTable[181 - r]
       ELSE IF r <= 270 THEN -SinTable[r - 179]
       ELSE -SinTable[361 - r]

CosDegrees(a) == SinDegrees(a + 90)

\* cv2.moments of a contour (Green's formula): the sums a00, a10, a01 with
\* m00 = |a00| / 2, m10 / m00 = a10 / (3 a00), m01 / m00 = a01 / (3 a00).
RECURSIVE MomentSums(_, _)
MomentSums(contour, i) ==
    IF i > Len(contour) THEN [a00 |-> 0, a10 |-> 0, a01 |-> 0]
    ELSE LET prev == contour[IF i = 1 THEN Len(contour) ELSE i - 1]
             cur == contour[i]
             dxy == prev[1] * cur[2] - cur[1] * prev[2]
             rest == MomentSums(contour, i + 1)
         IN [a00 |-> rest.a00 + dxy,
             a10 |-> rest.a10 + dxy * (prev[1] + cur[1]),
             a01 |-> rest.a01 + dxy * (prev[2] + cur[2])]

Moments(contour) == MomentSums(contour, 1)

\* The centroid (cx, cy) = (m10 / m00, m01 / m00) as fractions of one
\* positive denominator: [x, y, den].
Centroid(contour) ==
    LET m == Moments(contour)
    IN [x |-> m.a10 * Sign(m.a00), y |-> m.a01 * Sign(m.a00), den |-> 3 * Abs(m.a00)]

\* cv2.convexHull: the points of the contour that are corners of its convex
\* hull.  A point is no corner iff it lies between two other points or in a
\* triangle of three other points.
Cross(o, a, b) == (a[1] - o[1]) * (b[2] - o[2]) - (a[2] - o[2]) * (b[1] - o[1])

Between(p, a, b) ==
    /\ Cross(a, b, p) = 0
    /\ (a[1] - p[1]) * (b[1] - p[1]) + (a[2] - p[2]) * (b[2] - p[2]) <= 0

InTriangle(p, a, b, c) ==
    LET d1 == Cross(a, b, p)
        d2 == Cross(b, c, p)
        d3 == Cross(c, a, p)
    IN /\ Cross(a, b, c) # 0
       /\ ~((d1 < 0 \/ d2 < 0 \/ d3 < 0) /\ (d1 > 0 \/ d2 > 0 \/ d3 > 0))

IsHullCorner(contour, i) ==
    LET others == {contour[j] : j \in (1..Len(contour)) \ {i}}
        p == contour[i]
    IN /\ p \notin {contour[j] : j \in 1..(i - 1)}
       /\ \A a, b \in others : ~Between(p, a, b)
       /\ \A a, b, c \in others : ~InTriangle(p, a, b, c)

HullOfContour(contour) ==
    LET Corner(i) == IsHullCorner(contour, i)
    IN SelectIdx([i \in 1..Len(contour) |-> i], Corner, 1)

\* The orders in which cv2.convexHull can list the corners: around the hull
\* in either sense, from any corner.
HullOrders(contour) ==
    LET h == HullOfContour(contour)
        n == Len(h)
    IN IF n = 0 THEN {<<>>}
       ELSE {[k \in 1..n |-> h[((s + k - 2) % n) + 1]] : s \in 1..n}
            \cup {[k \in 1..n |-> h[((s - k + n) % n) + 1]] : s \in 1..n}

\* The cosine of the angle at p2 between p1 and p3, as dot / sqrt(sq):
\* np.dot(v1, v2) / (v1_norm * v2_norm).
CornerCos(p1, p2, p3) ==
    LET v1 == <<p1[1] - p2[1], p1[2] - p2[2]>>
        v2 == <<p3[1] - p2[1], p3[2] - p2[2]>>
    IN [dot |-> v1[1] * v2[1] + v1[2] * v2[2],
        sq |-> (v1[1] * v1[1] + v1[2] * v1[2]) * (v2[1] * v2[1] + v2[2] * v2[2])]

\* angle(c1) < angle(c2): the cosine of c1 is the larger one.
AngleLess(c1, c2) ==
    IF c1.dot >= 0
    THEN c2.dot < 0 \/ c1.dot * c1.dot * c2.sq > c2.dot * c2.dot * c1.sq
    ELSE c2.dot < 0 /\ c1.dot * c1.dot * c2.sq < c2.dot * c2.dot * c1.sq

AngleAbove90(c) == c.dot < 0

\* min_angle > 120: the cosine is below -1/2
AngleAbove120(c) == c.dot < 0 /\ 4 * c.dot * c.dot > c.sq

\* The loop over hull_points: [tip, cos] of the sharpest corner, the first
\* one among equals; tip = <<>> stands for None.
RECURSIVE SharpestCorner(_, _, _)
SharpestCorner(hp, i, best) ==
    IF i > Len(hp) THEN best
    ELSE LET p1 == hp[IF i = 1 THEN Len(hp) ELSE i - 1]
             p2 == hp[i]
             p3 == hp[(i % Len(hp)) + 1]
             c == CornerCos(p1, p2, p3)
         IN IF c.sq = 0 THEN SharpestCorner(hp, i + 1, best)
            ELSE IF best.tip = <<>> \/ AngleLess(c, best.cos)
                 THEN SharpestCorner(hp, i + 1, [tip |-> p2, cos |-> c])
                 ELSE SharpestCorner(hp, i + 1, best)

\* The loop of _direction_furthest_point: the first hull point at the largest
\* distance from the centroid, <<>> if none is further than 0.
RECURSIVE FurthestPoint(_, _, _, _, _)
FurthestPoint(hp, c, i, max_dist, tip) ==
    IF i > Len(hp) THEN tip
    ELSE LET ddx == hp[i][1] * c.den - c.x
             ddy == hp[i][2] * c.den - c.y
             dist == ddx * ddx + ddy * ddy
         IN IF dist > max_dist THEN FurthestPoint(hp, c, i + 1, dist, hp[i])
            ELSE FurthestPoint(hp, c, i + 1, max_dist, tip)

\* The heading from the centroid to the tip:
\* game_angle of np.degrees(np.arctan2(tip_y - cy, tip_x - cx)).
HeadingTo(tip, c) ==
    GameAngle(Atan2Degrees(tip[2] * c.den - c.y, tip[1] * c.den - c.x))

NoAngle == [kind |-> "none"]
Raised == [kind |-> "raise"]
Angle(a) == [kind |-> "angle", angle |-> a]

\* _direction_furthest_point(contour, cx, cy)
DirectionFurthestPoint(hp, c) ==
    LET tip == FurthestPoint(hp, c, 1, 0, <<>>)
    IN [result |-> IF tip = <<>> THEN NoAngle ELSE Angle(HeadingTo(tip, c)),
        tip |-> tip]

HullPoints(contour, hull) == [k \in 1..Len(hull) |-> contour[hull[k]]]

\* cv2.minAreaRect: the angle of the rectangle and whether w < h.
RectAngles == {-90, -45, 0, 45, 90}

\* _direction_min_area_rect.  cv2.minAreaRect gives a rectangle for any
\* contour that has a point; what it does with an empty one is not known
\* here: it raises or gives a rectangle.
direction_min_area_rect ==
    /\ arrPc = "start"
    /\ arrMethod = 0
    /\ \/ /\ Len(arrContour) = 0
          /\ arrResult' = Raised
       \/ \E angle \in RectAngles, w_lt_h \in BOOLEAN :
             /\ Len(arrContour) <= 1 => ~w_lt_h
             /\ arrResult' = Angle(GameAngle(IF w_lt_h THEN angle + 90 ELSE angle))
    /\ arrPc' = "done"
    /\ UNCHANGED <<arrContour, arrMethod, arrHull, arrTip, arrPath, arrDrawEnd>>
    /\ UNCHANGED <<nmsVars, mergeVars, tmVars, cardVars, exVars, mdVars, taVars, wvVars, tlVars, t2Vars, thVars, cfVars, rlVars>>

\* _direction_convex_hull
direction_convex_hull ==
    /\ arrPc = "start"
    /\ arrMethod = 1
    /\ LET c == Centroid(arrContour)
       IN IF c.den = 0
          THEN /\ arrResult' = NoAngle
               /\ arrPath' = "m00 is 0"
               /\ UNCHANGED <<arrHull, arrTip>>
          ELSE \E hull \in HullOrders(arrContour), defects_raise \in BOOLEAN :
               LET hp == HullPoints(arrContour, hull)
                   sharp == SharpestCorner(hp, 1, [tip |-> <<>>, cos |-> <<>>])
                   far == DirectionFurthestPoint(hp, c)
               IN /\ arrHull' = hull
                  /\ IF Len(hull) < 3
                     THEN /\ arrResult' = NoAngle
                          /\ arrPath' = "hull below 3"
                          /\ arrTip' = <<>>
                     ELSE IF defects_raise
                     THEN /\ arrResult' = far.result
                          /\ arrPath' = "defects raised, furthest"
                          /\ arrTip' = far.tip
                     ELSE IF sharp.tip = <<>> \/ AngleAbove120(sharp.cos)
                     THEN /\ arrResult' = far.result
                          /\ arrPath' = "not sharp, furthest"
                          /\ arrTip' = far.tip
                     ELSE /\ arrResult' = Angle(HeadingTo(sharp.tip, c))
                          /\ arrPath' = "sharpest"
                          /\ arrTip' = sharp.tip
    /\ arrPc' = "done"
    /\ UNCHANGED <<arrContour, arrMethod, arrDrawEnd>>
    /\ UNCHANGED <<nmsVars, mergeVars, tmVars, cardVars, exVars, mdVars, taVars, wvVars, tlVars, t2Vars, thVars, cfVars, rlVars>>

\* The directions np.linalg.eig can give as main axis.
AxisDirections ==
    {<<1, 0>>, <<1, 1>>, <<0, 1>>, <<-1, 1>>, <<-1, 0>>, <<-1, -1>>, <<0, -1>>, <<1, -1>>}

\* _direction_pca.  With fewer than two points np.cov is all NaN and
\* np.linalg.eig raises LinAlgError.
direction_pca ==
    /\ arrPc = "start"
    /\ arrMethod = 2
    /\ IF Len(arrContour) <= 1
       THEN arrResult' = Raised
       ELSE \E main_axis \in AxisDirections :
               arrResult' = Angle(GameAngle(Atan2Degrees(main_axis[2], main_axis[1])))
    /\ arrPc' = "done"
    /\ UNCHANGED <<arrContour, arrMethod, arrHull, arrTip, arrPath, arrDrawEnd>>
    /\ UNCHANGED <<nmsVars, mergeVars, tmVars, cardVars, exVars, mdVars, taVars, wvVars, tlVars, t2Vars, thVars, cfVars, rlVars>>

\* arrow_len = max(30, int(50 * scale)) with scale = 1.0
arrow_len == 50

\* ArrowDetector.draw_results on the arrow HSVArrowDetector.detect builds:
\* position (int(m10 / m00), int(m01 / m00)), the angle as returned.
\* end_x = int(x + arrow_len * sin(rad)); end_y = int(y - arrow_len * cos(rad))
draw_results ==
    /\ arrPc = "done"
    /\ arrResult.kind = "angle"
    /\ Centroid(arrContour).den # 0
    /\ LET c == Centroid(arrContour)
           x == IntOfQuotient(c.x, c.den)
           y == IntOfQuotient(c.y, c.den)
       IN arrDrawEnd' =
             [x |-> x, y |-> y,
              end_x |-> IntOfQuotient(x * One + arrow_len * SinDegrees(arrResult.angle),
                                      One),
              end_y |-> IntOfQuotient(y * One - arrow_len * CosDegrees(arrResult.angle),
                                      One)]
    /\ arrPc' = "drawn"
    /\ UNCHANGED <<arrContour, arrMethod, arrHull, arrResult, arrTip, arrPath>>
    /\ UNCHANGED <<nmsVars, mergeVars, tmVars, cardVars, exVars, mdVars, taVars, wvVars, tlVars, t2Vars, thVars, cfVars, rlVars>>

ArrowInit ==
    /\ arrContour \in ArrowContours
    /\ arrMethod \in DirectionMethods
    /\ arrHull = <<>>
    /\ arrResult = [kind |-> "pending"]
    /\ arrTip = <<>>
    /\ arrPath = "none"
    /\ arrDrawEnd = <<>>
    /\ arrPc = "start"

-----------------------------------------------------------------------------
(* ArrowDetector.angle_to_cardinal *)

directions == <<"N", "NE", "E", "SE", "S", "SW", "W", "NW">>

AngleToCardinalNoOffset(half) == directions[((half \div 90) % 8) + 1]

\* index = int((angle + 22.5) / 45) % 8 for the angle half / 2 degrees
AngleToCardinal(half) == directions[(((half + 45) \div 90) % 8) + 1]

angle_to_cardinal ==
    /\ cardPc = "start"
    /\ cardResult' = AngleToCardinal(cardAngle)
    /\ cardPc' = "done"
    /\ UNCHANGED cardAngle
    /\ UNCHANGED <<nmsVars, mergeVars, tmVars, arrVars, exVars, mdVars, taVars, wvVars, tlVars, t2Vars, thVars, cfVars, rlVars>>

\* The angles 0, 0.5, 1, ... below 360 degrees, in half degrees.
CardInit ==
    /\ cardAngle \in 0..719
    /\ cardResult = ""
    /\ cardPc = "start"

-----------------------------------------------------------------------------
(* Claims on the heading of an arrow *)

ArrowDone == arrPc \in {"done", "drawn"}

\* The offset of the tip from the centroid, times the centroid's denominator.
TipOffset ==
    LET c == Centroid(arrContour)
    IN <<arrTip[1] * c.den - c.x, arrTip[2] * c.den - c.y>>

\* C7: with the convex-hull strategy and its furthest-point fallback, a tip
\* directly above the centroid gives heading 0 (North), to the right 90
\* (East), below 180 (South), to the left 270 (West), and draw_results draws
\* the arrow from the centroid toward the tip.
C7_CompassHeading ==
    (ArrowDone /\ arrMethod = 1 /\ arrResult.kind = "angle")
        => LET o == TipOffset
           IN /\ (o[1] = 0 /\ o[2] < 0) => arrResult.angle = 0
              /\ (o[1] > 0 /\ o[2] = 0) => arrResult.angle = 90
              /\ (o[1] = 0 /\ o[2] > 0) => arrResult.angle = 180
              /\ (o[1] < 0 /\ o[2] = 0) => arrResult.angle = 270
              /\ (arrPc = "drawn" /\ (o[1] = 0 \/ o[2] = 0))
                    => /\ Sign(arrDrawEnd.end_x - arrDrawEnd.x) = Sign(o[1])
                       /\ Sign(arrDrawEnd.end_y - arrDrawEnd.y) = Sign(o[2])

\* C9: for a contour of fewer than 3 points _calculate_direction returns
\* None, whichever of the three strategies is selected.
C9_NoneBelowThreePoints ==
    (ArrowDone /\ Len(arrContour) < 3) => arrResult.kind = "none"

\* The sharpest corner of the hull the detector got, and whether its angle is
\* below 120 degrees (its cosine above -1/2).
C10_Sharpest ==
    SharpestCorner(HullPoints(arrContour, arrHull), 1, [tip |-> <<>>, cos |-> <<>>])

C10_Below120(c) == c.dot >= 0 \/ 4 * c.dot * c.dot < c.sq

C10_FellBack == arrPath \in {"defects raised, furthest", "not sharp, furthest"}

C10_FurthestTip ==
    FurthestPoint(HullPoints(arrContour, arrHull), Centroid(arrContour), 1, 0, <<>>)

\* The tip is the sharpest corner exactly when there is one below 120
\* degrees, convexityDefects raising apart; after the fallback the tip is the
\* furthest hull point.
C10_TipChoice ==
    /\ arrPath = "sharpest"
          => /\ C10_Sharpest.tip # <<>>
             /\ C10_Below120(C10_Sharpest.cos)
             /\ arrTip = C10_Sharpest.tip
             /\ \A k \in 1..Len(arrHull) :
                   LET n == Len(arrHull)
                       hp == HullPoints(arrContour, arrHull)
                       c == CornerCos(hp[((k + n - 2) % n) + 1], hp[k], hp[(k % n) + 1])
                   IN ~AngleLess(c, C10_Sharpest.cos)
    /\ (arrPath = "not sharp, furthest")
          => (C10_Sharpest.tip = <<>> \/ ~C10_Below120(C10_Sharpest.cos))
    /\ C10_FellBack
          => /\ arrTip = C10_FurthestTip
             /\ arrResult.kind = "none" <=> arrTip = <<>>
             /\ arrTip # <<>>
                   => \A k \in 1..Len(arrHull) :
                         LET c == Centroid(arrContour)
                             Dist2(p) == (p[1] * c.den - c.x) * (p[1] * c.den - c.x)
                                         + (p[2] * c.den - c.y) * (p[2] * c.den - c.y)
                         IN Dist2(arrContour[arrHull[k]]) <= Dist2(arrTip)

\* C10: _direction_convex_hull takes the hull corner with the smallest angle
\* as tip exactly when that angle is below 120 degrees; in every other case
\* it falls back to the hull point furthest from the centroid, and it returns
\* None only when the furthest-point heuristic also yields no tip.
C10_NoneOnlyAfterFallback ==
    (ArrowDone /\ arrMethod = 1)
        => /\ arrPath \in {"sharpest", "defects raised, furthest", "not sharp, furthest"}
           /\ C10_TipChoice
           /\ arrResult.kind = "none" => (C10_FellBack /\ C10_FurthestTip = <<>>)

\* C10, amended: as above for a contour with m00 # 0 and a hull of at least 3
\* points; with m00 = 0 or a shorter hull the function returns None without
\* trying the furthest point.
C10_NoneAlsoWithoutFallback ==
    (ArrowDone /\ arrMethod = 1)
        => /\ Moments(arrContour).a00 = 0
                 => (arrPath = "m00 is 0" /\ arrResult.kind = "none")
           /\ (Moments(arrContour).a00 # 0 /\ Len(arrHull) < 3)
                 => (arrPath = "hull below 3" /\ arrResult.kind = "none")
           /\ (Moments(arrContour).a00 # 0 /\ Len(arrHull) >= 3)
                 => /\ arrPath \in {"sharpest", "defects raised, furthest",
                                    "not sharp, furthest"}
                    /\ C10_TipChoice
                    /\ arrResult.kind = "none" => (C10_FellBack /\ C10_FurthestTip = <<>>)

C10_Witness ==
    /\ ArrowDone
    /\ arrMethod = 1
    /\ arrContour = LensTall
    /\ arrPath = "not sharp, furthest"
    /\ arrTip = <<3, 8>>
    /\ arrResult.kind = "angle"

-----------------------------------------------------------------------------
(* Claim on angle_to_cardinal *)

\* C8: angle_to_cardinal gives the label of the 45-degree sector the angle
\* lies in, the sectors being centred on N = 0, NE = 45, ... NW = 315 and
\* each reaching from 22.5 degrees below its centre (included) to 22.5
\* degrees above (excluded): 0 -> N, 44 -> NE, 90 -> E, 359 -> N.
C8_CardinalSectors ==
    cardPc = "done"
        => /\ \A k \in 0..7 :
                 cardResult = directions[k + 1]
                    <=> \E m \in {k, k + 8} :
                           90 * m - 45 <= cardAngle /\ cardAngle < 90 * m + 45
           /\ cardAngle = 0 => cardResult = "N"
           /\ cardAngle = 88 => cardResult = "NE"
           /\ cardAngle = 180 => cardResult = "E"
           /\ cardAngle = 718 => cardResult = "N"

C8_Witness == cardPc = "done" /\ cardAngle = 88 /\ cardResult = "NE"

-----------------------------------------------------------------------------
(* HSVMonsterDetector.detect and MapPointDetector.detect_points_from_mask:
   the loop over the contours *)

\* Contours as cv2.findContours gives them (at least one point each), all
\* with edges of whole-number length: a single pixel, a two-pixel-wide
\* stroke, a line, a square, a 3-4-5 triangle and a twelve-sided near-circle.
PixelContour == << <<2, 2>> >>
StrokeContour == << <<0, 0>>, <<4, 0>> >>
Triangle == << <<0, 0>>, <<4, 0>>, <<0, 3>> >>
Dodecagon ==
    << <<7, 0>>, <<9, 0>>, <<13, 3>>, <<16, 7>>, <<16, 9>>, <<13, 13>>,
       <<9, 16>>, <<7, 16>>, <<3, 13>>, <<0, 9>>, <<0, 7>>, <<3, 3>> >>

ExShapes == {PixelContour, StrokeContour, LineContour, Square, Triangle, Dodecagon}

\* The longest list of contours.
MaxContours == 2

\* Min_Area, Max_Area and Circularity (percent).
ExMinAreas == {0, 10}
ExMaxAreas == {20, 200}
ExCircularities == {0, 50, 80}

ExFilters == [min_area : ExMinAreas, max_area : ExMaxAreas, circularity : ExCircularities]

\* The whole-number square root (exact for the edges of the contours above).
IntSqrt(d) == CHOOSE k \in 0..d : k * k <= d /\ (k + 1) * (k + 1) > d

\* cv2.arcLength(contour, True)
RECURSIVE ArcLength(_, _)
ArcLength(contour, i) ==
    IF i > Len(contour) THEN 0
    ELSE LET prev == contour[IF i = 1 THEN Len(contour) ELSE i - 1]
             cur == contour[i]
         IN IntSqrt((cur[1] - prev[1]) * (cur[1] - prev[1])
                    + (cur[2] - prev[2]) * (cur[2] - prev[2]))
            + ArcLength(contour, i + 1)

Perimeter(contour) == ArcLength(contour, 1)

\* Twice cv2.contourArea(contour).
Area2(contour) == Abs(Moments(contour).a00)

\* area < min_area or area > max_area
AreaFiltered(contour, f) ==
    Area2(contour) < 2 * f.min_area \/ Area2(contour) > 2 * f.max_area

\* pi as the fraction 355 / 113: x * pi < y.
PiTimesBelow(x, y) == 355 * x < 113 * y

\* circ = 4 * np.pi * area / (perimeter * perimeter); circ < circularity,
\* the threshold being percent / 100.
CircularityBelow(contour, percent) ==
    PiTimesBelow(200 * Area2(contour), percent * Perimeter(contour) * Perimeter(contour))

\* calculate_circularity returns 0 when perimeter == 0.
MapCircularityBelow(contour, percent) ==
    IF Perimeter(contour) = 0 THEN 0 < percent
    ELSE CircularityBelow(contour, percent)

ZeroMomentUnnoticed(contour) == FALSE

\* if M['m00'] == 0: continue
ZeroMoment(contour) == Moments(contour).a00 = 0

\* The candidate built from a contour: cx = int(M['m10'] / M['m00']), ...
\* The circularity is kept as its two terms, the radius sqrt(area / pi) of a
\* point as the doubled area.
MonsterOf(contour, id) ==
    LET c == Centroid(contour)
    IN [id |-> id, x |-> IntOfQuotient(c.x, c.den), y |-> IntOfQuotient(c.y, c.den),
        area |-> Area2(contour) \div 2,
        circularity |-> [area2 |-> Area2(contour), perimeter |-> Perimeter(contour)],
        contour |-> contour]

PointOf(contour) ==
    LET c == Centroid(contour)
    IN [x |-> IntOfQuotient(c.x, c.den), y |-> IntOfQuotient(c.y, c.den),
        color_type |-> "red", radius_area2 |-> Area2(contour)]

\* One pass of `for contour in contours` of HSVMonsterDetector.detect.
hsv_detect_loop ==
    /\ exPc = "loop"
    /\ exDetector = "HSVMonsterDetector"
    /\ exI <= Len(exContours)
    /\ LET contour == exContours[exI]
       IN IF \/ AreaFiltered(contour, exFilter)
             \/ Perimeter(contour) = 0
             \/ CircularityBelow(contour, exFilter.circularity)
             \/ ZeroMoment(contour)
          THEN /\ exI' = exI + 1
               /\ UNCHANGED <<exOut, exFrom, exPc>>
          ELSE IF Moments(contour).a00 = 0
          THEN \* M['m10'] / M['m00'] raises ZeroDivisionError
               /\ exPc' = "raised"
               /\ UNCHANGED <<exI, exOut, exFrom>>
          ELSE /\ exOut' = Append(exOut, MonsterOf(contour, Len(exOut) + 1))
               /\ exFrom' = Append(exFrom, exI)
               /\ exI' = exI + 1
               /\ UNCHANGED exPc
    /\ UNCHANGED <<exDetector, exContours, exFilter>>
    /\ UNCHANGED <<nmsVars, mergeVars, tmVars, arrVars, cardVars, mdVars, taVars, wvVars, tlVars, t2Vars, thVars, cfVars, rlVars>>

\* One pass of `for contour in contours` of detect_points_from_mask.
map_detect_loop ==
    /\ exPc = "loop"
    /\ exDetector = "MapPointDetector"
    /\ exI <= Len(exContours)
    /\ LET contour == exContours[exI]
       IN IF \/ AreaFiltered(contour, exFilter)
             \/ MapCircularityBelow(contour, exFilter.circularity)
             \/ ZeroMoment(contour)
          THEN /\ exI' = exI + 1
               /\ UNCHANGED <<exOut, exFrom, exPc>>
          ELSE IF Moments(contour).a00 = 0
          THEN /\ exPc' = "raised"
               /\ UNCHANGED <<exI, exOut, exFrom>>
          ELSE /\ exOut' = Append(exOut, PointOf(contour))
               /\ exFrom' = Append(exFrom, exI)
               /\ exI' = exI + 1
               /\ UNCHANGED exPc
    /\ UNCHANGED <<exDetector, exContours, exFilter>>
    /\ UNCHANGED <<nmsVars, mergeVars, tmVars, arrVars, cardVars, mdVars, taVars, wvVars, tlVars, t2Vars, thVars, cfVars, rlVars>>

\* contours = cv2.findContours(...); monsters = [] / points = []
ex_begin ==
    /\ exPc = "start"
    /\ exI' = 1
    /\ exPc' = "loop"
    /\ UNCHANGED <<exDetector, exContours, exFilter, exOut, exFrom>>
    /\ UNCHANGED <<nmsVars, mergeVars, tmVars, arrVars, cardVars, mdVars, taVars, wvVars, tlVars, t2Vars, thVars, cfVars, rlVars>>

\* return monsters, steps / return points
ex_return ==
    /\ exPc = "loop"
    /\ exI > Len(exContours)
    /\ exPc' = "done"
    /\ UNCHANGED <<exDetector, exContours, exFilter, exI, exOut, exFrom>>
    /\ UNCHANGED <<nmsVars, mergeVars, tmVars, arrVars, cardVars, mdVars, taVars, wvVars, tlVars, t2Vars, thVars, cfVars, rlVars>>

ExInit ==
    /\ exDetector \in {"HSVMonsterDetector", "MapPointDetector"}
    /\ exContours \in SeqsUpTo(ExShapes, MaxContours)
    /\ exFilter \in ExFilters
    /\ exI = 0
    /\ exOut = <<>>
    /\ exFrom = <<>>
    /\ exPc = "start"

-----------------------------------------------------------------------------
(* Claim on the candidates of the two contour loops *)

\* C12: for every list of contours and every filter setting, Min_Area = 0
\* and Circularity = 0 included, neither detector returns a candidate built
\* from a contour with perimeter 0 or with zero area moment, nor one whose
\* circularity 4 * pi * area / perimeter^2 exceeds 1; such contours are
\* skipped: the loop goes on to the end of the list and nothing is raised.
C12_NoDegenerateCandidate ==
    /\ exPc # "raised"
    /\ exPc = "loop" => exI \in 1..(Len(exContours) + 1)
    /\ exPc = "done" => exI = Len(exContours) + 1
    /\ Len(exFrom) = Len(exOut)
    /\ \A k \in 1..Len(exOut) :
          LET contour == exContours[exFrom[k]]
          IN /\ Perimeter(contour) # 0
             /\ Moments(contour).a00 # 0
             /\ 355 * 2 * Area2(contour) <= 113 * Perimeter(contour) * Perimeter(contour)
    /\ exPc = "done" =>
          \A i \in 1..Len(exContours) :
             (Perimeter(exContours[i]) = 0 \/ Moments(exContours[i]).a00 = 0)
                => \A k \in 1..Len(exFrom) : exFrom[k] # i

\* Both filters at 0, a stroke of zero area was skipped and the contour after
\* it became a candidate.
C12_Witness ==
    /\ exPc = "done"
    /\ exFilter.min_area = 0
    /\ exFilter.circularity = 0
    /\ exContours = <<StrokeContour, Dodecagon>>
    /\ exFrom = <<2>>

-----------------------------------------------------------------------------
(* TemplateMonsterDetector.detect *)

\* Sizes in pixels of the (square) template and image, and the most matches
\* a call collects (with Scale_Step = 0 the loop would collect without end).
MdTemplateSize == 5
MdImageSize == 6
MdMaxMatches == 2

\* Trackbar positions Scale_Start, Scale_End, Scale_Step and Threshold, and
\* the correlation values, in percent.
MdScaleStarts == {80, 100, 150}
MdScaleEnds == {80, 120, 150}
MdScaleSteps == {0, 20, 50}
MdThresholds == {70}
MdScores == {60, 70, 80}

MdParams ==
    [template : BOOLEAN, threshold : MdThresholds, scale_start : MdScaleStarts,
     scale_end : MdScaleEnds, scale_step : MdScaleSteps, nms_threshold : NmsThresholds]

\* new_w = int(tw * scale)
MdScaledSize(scale) == (MdTemplateSize * scale) \div 100

\* if new_w < 5 or new_h < 5 or new_w > gray.shape[1] or new_h > gray.shape[0]
MdSkipsScale(scale) ==
    MdScaledSize(scale) < 5 \/ ExceedsImage(MdScaledSize(scale), MdImageSize)

\* The correlation results of a scale: a value for each looked-at column of
\* row 0 of `result`.
MdResults(scale) ==
    [{x \in TmColumns : x <= MdImageSize - MdScaledSize(scale)} -> MdScores]

\* locations = np.where(result >= threshold), and the matches appended for
\* them: 'x': pt[0] + new_w // 2, 'y': pt[1] + new_h // 2, ...
MdCollect(p, result, scale) ==
    LET Passes(x) == result[x] >= p.threshold
        n == Cardinality(DOMAIN result)
        locs == SelectIdx([k \in 1..n |-> k - 1], Passes, 1)
        s == MdScaledSize(scale)
    IN [k \in 1..Len(locs) |->
          [x |-> locs[k] + s \div 2, y |-> s \div 2, w |-> s, h |-> s,
           score |-> result[locs[k]], scale |-> scale]]

\* _nms as one function: kept, as indices into matches.
RECURSIVE MdNmsKept(_, _, _)
MdNmsKept(matches, order, thr) ==
    IF Len(order) = 0 THEN <<>>
    ELSE LET Keeps(j) == ~IsOverlapping(matches[order[1]], matches[j], thr)
         IN <<order[1]>> \o MdNmsKept(matches, SelectIdx(Tail(order), Keeps, 1), thr)

\* monsters = self._nms(all_matches, nms_threshold); m['id'] = i + 1;
\* m['area'] = m['w'] * m['h']
MdMonsters(matches, thr) ==
    LET kept == IF Len(matches) = 0 THEN <<>>
                ELSE MdNmsKept(matches, SortedByScoreDesc(matches), thr)
    IN [i \in 1..Len(kept) |->
          [x |-> matches[kept[i]].x, y |-> matches[kept[i]].y,
           w |-> matches[kept[i]].w, h |-> matches[kept[i]].h,
           score |-> matches[kept[i]].score, scale |-> matches[kept[i]].scale,
           id |-> i, area |-> matches[kept[i]].w * matches[kept[i]].h]]

\* if self.template is None: return [], {}; scale = scale_start
md_begin ==
    /\ mdPc = "start"
    /\ IF mdP.template
       THEN /\ mdScale' = mdP.scale_start
            /\ mdPc' = "loop"
            /\ UNCHANGED mdResult
       ELSE /\ mdResult' = [kind |-> "returned", monsters |-> <<>>]
            /\ mdPc' = "done"
            /\ UNCHANGED mdScale
    /\ UNCHANGED <<mdP, mdAllMatches, mdVisited>>
    /\ UNCHANGED <<nmsVars, mergeVars, tmVars, arrVars, cardVars, exVars, taVars, wvVars, tlVars, t2Vars, thVars, cfVars, rlVars>>

\* One pass of `while scale <= scale_end`. cv2.matchTemplate raises
\* cv2.error for a template larger than the image, and detect does not
\* catch it.
md_scale ==
    /\ mdPc = "loop"
    /\ mdScale <= mdP.scale_end
    /\ IF MdSkipsScale(mdScale)
       THEN /\ mdVisited' = mdVisited \cup {<<"skip", mdScale>>}
            /\ mdScale' = mdScale + mdP.scale_step
            /\ UNCHANGED <<mdAllMatches, mdResult, mdPc>>
       ELSE IF MdScaledSize(mdScale) > MdImageSize
       THEN /\ mdVisited' = mdVisited \cup {<<"match", mdScale>>}
            /\ mdResult' = [kind |-> "raised", error |-> "cv2.error"]
            /\ mdPc' = "done"
            /\ UNCHANGED <<mdAllMatches, mdScale>>
       ELSE \E result \in MdResults(mdScale) :
               LET found == MdCollect(mdP, result, mdScale)
               IN /\ Len(mdAllMatches) + Len(found) <= MdMaxMatches
                  /\ mdAllMatches' = mdAllMatches \o found
                  /\ mdVisited' = mdVisited \cup {<<"match", mdScale>>}
                  /\ mdScale' = mdScale + mdP.scale_step
                  /\ UNCHANGED <<mdResult, mdPc>>
    /\ UNCHANGED mdP
    /\ UNCHANGED <<nmsVars, mergeVars, tmVars, arrVars, cardVars, exVars, taVars, wvVars, tlVars, t2Vars, thVars, cfVars, rlVars>>

\* The loop ends; non-maximum suppression, ids, return.
md_return ==
    /\ mdPc = "loop"
    /\ mdScale > mdP.scale_end
    /\ mdResult' = [kind |-> "returned",
                    monsters |-> MdMonsters(mdAllMatches, mdP.nms_threshold)]
    /\ mdPc' = "done"
    /\ UNCHANGED <<mdP, mdScale, mdAllMatches, mdVisited>>
    /\ UNCHANGED <<nmsVars, mergeVars, tmVars, arrVars, cardVars, exVars, taVars, wvVars, tlVars, t2Vars, thVars, cfVars, rlVars>>

MdInit ==
    /\ mdP \in MdParams
    /\ mdScale = 0
    /\ mdAllMatches = <<>>
    /\ mdVisited = {}
    /\ mdResult = [kind |-> "none"]
    /\ mdPc = "start"

-----------------------------------------------------------------------------
(* Claim on the scale range of TemplateMonsterDetector.detect *)

\* The scales of the range from lo to hi: lo, lo + step, ... up to hi.
MdScalesOf(lo, hi, step) ==
    IF step = 0 THEN (IF lo <= hi THEN {lo} ELSE {})
    ELSE {s \in lo..hi : (s - lo) % step = 0}

\* C17: with an inverted scale range (scale_start > scale_end) detect
\* searches the scales of the swapped range, as it does for the swapped
\* range, instead of raising or searching no scale at all.
C17_InvertedRangeSwapped ==
    (mdPc = "done" /\ mdP.template /\ mdP.scale_start > mdP.scale_end)
        => {v[2] : v \in mdVisited}
              = MdScalesOf(mdP.scale_end, mdP.scale_start, mdP.scale_step)

\* C22: TemplateMonsterDetector.detect terminates for every parameter
\* assignment reachable from its trackbars: the multi-scale loop always
\* advances to a scale beyond scale_end, including when Scale_Step is 0 and
\* when a scale is skipped for size.
C22_DetectTerminates == (mdPc = "start") ~> (mdPc = "done")

-----------------------------------------------------------------------------
(* TemplateArrowDetector.detect *)

\* Sizes in pixels of the (square) template and image.
TaTemplateSize == 5
TaImageSize == 6

\* Trackbar positions Angle_Start, Angle_End, Angle_Step (degrees), Scale_Min,
\* Scale_Max, Threshold (percent), and the values of max_val, in percent.
TaAngleStarts == {0, 90}
TaAngleEnds == {0, 90}
TaAngleSteps == {0, 45}
TaScaleMins == {100, 140}
TaScaleMaxs == {100, 150}
TaThresholds == {70}
TaScores == {60, 70, 80}

TaParams ==
    [template : BOOLEAN, threshold : TaThresholds, angle_start : TaAngleStarts,
     angle_end : TaAngleEnds, angle_step : TaAngleSteps, scale_min : TaScaleMins,
     scale_max : TaScaleMaxs]

\* The values of range(start, stop, step), step > 0, and of
\* np.arange(start, stop, step), as a list.
RangeList(start, stop, step) ==
    IF stop <= start THEN <<>>
    ELSE [k \in 1..((stop - start + step - 1) \div step) |-> start + (k - 1) * step]

\* range(angle_start, angle_end, angle_step)
TaAngles(p) == RangeList(p.angle_start, p.angle_end, p.angle_step)

\* np.arange(scale_min, scale_max + 0.1, 0.1), in percent
TaScales(p) == RangeList(p.scale_min, p.scale_max + 10, 10)

\* new_w = int(tw * scale)
TaScaledSize(scale) == (TaTemplateSize * scale) \div 100

\* if new_w < 5 or new_h < 5 or new_w > gray.shape[1] or new_h > gray.shape[0]
TaSkipsScale(scale) ==
    TaScaledSize(scale) < 5 \/ ExceedsImage(TaScaledSize(scale), TaImageSize)

\* if max_val > best_score
BeatsBest(max_val, best_score) == max_val > best_score

\* The best_match record built for a placement.
TaMatch(angle, scale, max_val, max_loc) ==
    [found |-> TRUE,
     x |-> max_loc + TaScaledSize(scale) \div 2, y |-> TaScaledSize(scale) \div 2,
     angle |-> angle, cardinal |-> AngleToCardinal(2 * angle),
     score |-> max_val, scale |-> scale,
     width |-> TaScaledSize(scale), height |-> TaScaledSize(scale)]

\* if self.template is None: return {'found': False}, {}; best_match = None;
\* best_score = threshold; range(...) raises ValueError for a step of 0.
ta_begin ==
    /\ taPc = "start"
    /\ IF ~taP.template
       THEN /\ taResult' = [kind |-> "returned", match |-> [found |-> FALSE]]
            /\ taPc' = "done"
            /\ UNCHANGED <<taAi, taSi, taBestScore>>
       ELSE IF taP.angle_step = 0
       THEN /\ taResult' = [kind |-> "raised", error |-> "ValueError"]
            /\ taBestScore' = taP.threshold
            /\ taPc' = "done"
            /\ UNCHANGED <<taAi, taSi>>
       ELSE /\ taBestScore' = taP.threshold
            /\ taAi' = 1
            /\ taSi' = 1
            /\ taPc' = "loop"
            /\ UNCHANGED taResult
    /\ UNCHANGED <<taP, taBestMatch, taVisited, taMax>>
    /\ UNCHANGED <<nmsVars, mergeVars, tmVars, arrVars, cardVars, exVars, mdVars, wvVars, tlVars, t2Vars, thVars, cfVars, rlVars>>

\* One pass of the inner loop `for scale in np.arange(...)`.
\* cv2.matchTemplate raises cv2.error for a template larger than the image,
\* and detect does not catch it.
ta_scale ==
    /\ taPc = "loop"
    /\ taAi <= Len(TaAngles(taP))
    /\ taSi <= Len(TaScales(taP))
    /\ LET angle == TaAngles(taP)[taAi]
           scale == TaScales(taP)[taSi]
       IN IF TaSkipsScale(scale)
          THEN /\ taVisited' = taVisited \cup {<<"skip", angle, scale>>}
               /\ taSi' = taSi + 1
               /\ UNCHANGED <<taBestMatch, taBestScore, taMax, taResult, taPc>>
          ELSE IF TaScaledSize(scale) > TaImageSize
          THEN /\ taVisited' = taVisited \cup {<<"match", angle, scale>>}
               /\ taResult' = [kind |-> "raised", error |-> "cv2.error"]
               /\ taPc' = "done"
               /\ UNCHANGED <<taBestMatch, taBestScore, taMax, taSi>>
          ELSE \E max_val \in TaScores :
               \E max_loc \in {x \in TmColumns : x <= TaImageSize - TaScaledSize(scale)} :
                  /\ taVisited' = taVisited \cup {<<"match", angle, scale>>}
                  /\ taMax' = Max2(taMax, max_val)
                  /\ IF BeatsBest(max_val, taBestScore)
                     THEN /\ taBestScore' = max_val
                          /\ taBestMatch' = TaMatch(angle, scale, max_val, max_loc)
                     ELSE UNCHANGED <<taBestMatch, taBestScore>>
                  /\ taSi' = taSi + 1
                  /\ UNCHANGED <<taResult, taPc>>
    /\ UNCHANGED <<taP, taAi>>
    /\ UNCHANGED <<nmsVars, mergeVars, tmVars, arrVars, cardVars, exVars, mdVars, wvVars, tlVars, t2Vars, thVars, cfVars, rlVars>>

\* The inner loop ends: the next angle, its rotation.
ta_next_angle ==
    /\ taPc = "loop"
    /\ taAi <= Len(TaAngles(taP))
    /\ taSi > Len(TaScales(taP))
    /\ taAi' = taAi + 1
    /\ taSi' = 1
    /\ UNCHANGED <<taP, taBestMatch, taBestScore, taVisited, taMax, taResult, taPc>>
    /\ UNCHANGED <<nmsVars, mergeVars, tmVars, arrVars, cardVars, exVars, mdVars, wvVars, tlVars, t2Vars, thVars, cfVars, rlVars>>

\* if best_match is None: best_match = {'found': False}; return
ta_return ==
    /\ taPc = "loop"
    /\ taAi > Len(TaAngles(taP))
    /\ taResult' = [kind |-> "returned", match |-> taBestMatch]
    /\ taPc' = "done"
    /\ UNCHANGED <<taP, taAi, taSi, taBestMatch, taBestScore, taVisited, taMax>>
    /\ UNCHANGED <<nmsVars, mergeVars, tmVars, arrVars, cardVars, exVars, mdVars, wvVars, tlVars, t2Vars, thVars, cfVars, rlVars>>

TaInit ==
    /\ taP \in TaParams
    /\ taAi = 0
    /\ taSi = 0
    /\ taBestMatch = [found |-> FALSE]
    /\ taBestScore = 0
    /\ taVisited = {}
    /\ taMax = -1
    /\ taResult = [kind |-> "none"]
    /\ taPc = "start"

-----------------------------------------------------------------------------
(* Claims on TemplateArrowDetector.detect *)

TaReturned == taPc = "done" /\ taResult.kind = "returned"

\* C16: a placement whose score equals the threshold is accepted: whenever
\* the best score over all scanned (angle, scale) pairs is >= threshold, the
\* result has found = True and reports a placement with that best score.
C16_ThresholdInclusive ==
    (TaReturned /\ taMax >= taP.threshold)
        => (taResult.match.found /\ taResult.match.score = taMax)

\* C18: with angle_start = angle_end the search is made for exactly one
\* rotation, angle 0, so that an unrotated occurrence of the template above
\* the threshold is found.
C18_ZeroWidthAngleRange ==
    (taPc = "done" /\ taP.template /\ taP.angle_step > 0
     /\ taP.angle_start = taP.angle_end)
        => /\ TaReturned
           /\ {v[2] : v \in taVisited} = {0}
           /\ taMax > taP.threshold => taResult.match.found

\* C26: TemplateArrowDetector.detect returns a result (found / not found)
\* without raising for every parameter assignment reachable from its
\* trackbars, including a step of 0 (Angle_Step = 0).
C26_DetectReturnsForStepZero ==
    (taPc = "done" /\ taP.angle_step = 0) => taResult.kind = "returned"

-----------------------------------------------------------------------------
(* Claims on the collected matches of match_template_multiscale *)

\* The number of collected matches of the scale at position k.
TmCollectedAt(k) ==
    Cardinality({m \in 1..Len(tmAllMatches) : tmAllMatches[m].scale = k})

\* C21: the timeout only prevents further scales from being started: every
\* scale whose correlation has been computed contributes all of its
\* threshold-passing placements to the collected matches, even if the time
\* budget expired while that correlation was running.
C21_ComputedScaleContributes ==
    \A i \in 1..Len(tmLog) :
        tmLog[i][1] = "match" => TmCollectedAt(tmLog[i][2]) = tmLog[i][3]

\* The scaled template size of the scale at position k, mapped back to
\* original-image coordinates: int(scaled size / resize_factor).
TmOriginalSize(k) ==
    LET s == ScaledSize(Resized(TmTemplateSize, tmP.resize), TmScales(tmP)[k])
    IN IF tmP.resize < 100 THEN (s * 100) \div tmP.resize ELSE s

\* C24: all matches collected at the same scale have the same width and
\* height, equal to the scaled template size mapped back to original-image
\* coordinates, for every resize_factor and any number of matches per scale.
C24_SameSizePerScale ==
    \A m \in 1..Len(tmAllMatches) :
        /\ tmAllMatches[m].w = TmOriginalSize(tmAllMatches[m].scale)
        /\ tmAllMatches[m].h = TmOriginalSize(tmAllMatches[m].scale)

-----------------------------------------------------------------------------
(* Claim on the three multi-scale template searches *)

\* The scale at position k of match_template_multiscale makes a template
\* larger than the image.
TmOversize(k) ==
    ScaledSize(Resized(TmTemplateSize, tmP.resize), TmScales(tmP)[k])
        > Resized(TmImageSize, tmP.resize)

MdOversize(scale) == MdScaledSize(scale) > MdImageSize

TaOversize(scale) == TaScaledSize(scale) > TaImageSize

\* match_template_multiscale: an oversize scale is only skipped (or met by the
\* timeout check that precedes the size check), contributes no match, and is
\* followed by the loop's pass for the next scale.
C19_Multiscale ==
    /\ \A i \in 1..Len(tmLog) :
          TmOversize(tmLog[i][2]) =>
             /\ tmLog[i][1] \in {"skip", "timeout"}
             /\ (tmLog[i][1] = "skip" /\ tmPc \in {"post", "done"}
                 /\ tmLog[i][2] < Len(TmScales(tmP)))
                   => (i < Len(tmLog) /\ tmLog[i + 1][2] = tmLog[i][2] + 1)
    /\ \A m \in 1..Len(tmAllMatches) : ~TmOversize(tmAllMatches[m].scale)
    /\ (tmPc \in {"post", "done"} /\ tmExit = "exhausted")
          => {tmLog[i][2] : i \in 1..Len(tmLog)} = 1..Len(TmScales(tmP))
    /\ tmPc = "done" => tmResult.kind = "returned"

\* TemplateMonsterDetector.detect: the same, for the scales of the while loop.
C19_Monster ==
    /\ \A v \in mdVisited : v[1] = "skip" <=> MdSkipsScale(v[2])
    /\ \A v \in mdVisited : MdOversize(v[2]) => v[1] = "skip"
    /\ \A m \in 1..Len(mdAllMatches) : ~MdOversize(mdAllMatches[m].scale)
    /\ mdPc = "done" =>
          /\ mdResult.kind = "returned"
          /\ mdP.template =>
                {v[2] : v \in mdVisited}
                   = MdScalesOf(mdP.scale_start, mdP.scale_end, mdP.scale_step)

\* TemplateArrowDetector.detect: the same, for every (angle, scale) pair; the
\* call raises only for Angle_Step = 0.
C19_Arrow ==
    /\ \A v \in taVisited : v[1] = "skip" <=> TaSkipsScale(v[3])
    /\ \A v \in taVisited : TaOversize(v[3]) => v[1] = "skip"
    /\ taBestMatch.found => ~TaOversize(taBestMatch.scale)
    /\ taPc = "done" =>
          /\ taResult.kind = "raised" => (taP.template /\ taP.angle_step = 0)
          /\ (taResult.kind = "returned" /\ taP.template) =>
                {<<v[2], v[3]>> : v \in taVisited}
                   = Range(TaAngles(taP)) \X Range(TaScales(taP))

\* C19: in every multi-scale template search (match_template_multiscale,
\* TemplateMonsterDetector.detect, TemplateArrowDetector.detect) a scale whose
\* resized template is wider or taller than the search image produces no
\* match and no error, and all remaining scales of the range are still
\* searched.
C19_OversizeScaleSkipped == C19_Multiscale /\ C19_Monster /\ C19_Arrow

\* A returned arrow search that skipped the oversize scale 1.4 at angle 0 and
\* afterwards found its best placement at angle 45.
C19_Witness ==
    /\ taPc = "done"
    /\ taResult.kind = "returned"
    /\ <<"skip", 0, 140>> \in taVisited
    /\ TaOversize(140)
    /\ taResult.match.found
    /\ taResult.match.angle = 45

-----------------------------------------------------------------------------
(* Config.save, Config.save_cookie, Config.load and the threads of
   WebViewCapture that call them *)

\* The thread of the window events (on_closing), CookieSaveThread and
\* ConfigCheckThread.
WvThreads == {"main", "cookie_save", "config_check"}

\* What document.cookie can give: nothing, or a cookie string.
CookieStrings == {"", "sid=1", "sid=2; theme"}

\* The parsing loop of save_cookies: the segments with '=' become entries.
ParseCookies(cookies_str) ==
    CASE cookies_str = "sid=1" -> {<<"sid", "1">>}
      [] cookies_str = "sid=2; theme" -> {<<"sid", "2">>}
      [] OTHER -> {}

\* threading.Lock.acquire: the lock is taken only when nobody holds it, the
\* acquiring thread included.
Acquired(lock, t) == lock = "free"

\* on_closing: stop_threads(), then save_cookies().
on_closing ==
    /\ wvPc["main"] = "window"
    /\ is_running' = FALSE
    /\ wvPc' = [wvPc EXCEPT !["main"] = "save_cookies"]
    /\ wvCaller' = [wvCaller EXCEPT !["main"] = <<"on_closing">>]
    /\ UNCHANGED <<config_lock, cookie, cfgFile, wvCookies, wvSaved>>
    /\ UNCHANGED <<nmsVars, mergeVars, tmVars, arrVars, cardVars, exVars, mdVars, taVars, tlVars, t2Vars, thVars, cfVars, rlVars>>

\* cookie_save_loop: time.sleep(300); if self.is_running: self.save_cookies()
cookie_save_loop ==
    /\ wvPc["cookie_save"] = "sleep"
    /\ IF is_running
       THEN /\ wvPc' = [wvPc EXCEPT !["cookie_save"] = "save_cookies"]
            /\ wvCaller' = [wvCaller EXCEPT !["cookie_save"] = <<"cookie_save_loop">>]
       ELSE /\ wvPc' = [wvPc EXCEPT !["cookie_save"] = "exited"]
            /\ UNCHANGED wvCaller
    /\ UNCHANGED <<config_lock, cookie, cfgFile, is_running, wvCookies, wvSaved>>
    /\ UNCHANGED <<nmsVars, mergeVars, tmVars, arrVars, cardVars, exVars, mdVars, taVars, tlVars, t2Vars, thVars, cfVars, rlVars>>

\* Where save_cookies returns to: the next statement of on_closing is
\* config.save(), that of cookie_save_loop the loop's sleep.
AfterSaveCookies(caller) == IF caller = "on_closing" THEN "save" ELSE "sleep"

\* save_cookies up to the call of config.save_cookie(cookies).
save_cookies(t) ==
    /\ wvPc[t] = "save_cookies"
    /\ \E cookies_str \in CookieStrings :
          IF cookies_str # ""
          THEN /\ wvCookies' = [wvCookies EXCEPT ![t] = ParseCookies(cookies_str)]
               /\ wvPc' = [wvPc EXCEPT ![t] = "save_cookie"]
          ELSE /\ wvPc' = [wvPc EXCEPT ![t] = AfterSaveCookies(wvCaller[t][1])]
               /\ UNCHANGED wvCookies
    /\ UNCHANGED <<config_lock, cookie, cfgFile, is_running, wvCaller, wvSaved>>
    /\ UNCHANGED <<nmsVars, mergeVars, tmVars, arrVars, cardVars, exVars, mdVars, taVars, tlVars, t2Vars, thVars, cfVars, rlVars>>

\* save_cookie: with self.config_lock: self.cookie = cookie; self.save()
save_cookie(t) ==
    /\ wvPc[t] = "save_cookie"
    /\ Acquired(config_lock, t)
    /\ config_lock' = t
    /\ cookie' = wvCookies[t]
    /\ wvPc' = [wvPc EXCEPT ![t] = "save"]
    /\ wvCaller' = [wvCaller EXCEPT ![t] = <<"save_cookie">> \o wvCaller[t]]
    /\ UNCHANGED <<cfgFile, is_running, wvCookies, wvSaved>>
    /\ UNCHANGED <<nmsVars, mergeVars, tmVars, arrVars, cardVars, exVars, mdVars, taVars, tlVars, t2Vars, thVars, cfVars, rlVars>>

\* save: with self.config_lock:
save_enter(t) ==
    /\ wvPc[t] = "save"
    /\ Acquired(config_lock, t)
    /\ config_lock' = t
    /\ wvPc' = [wvPc EXCEPT ![t] = "save_locked"]
    /\ UNCHANGED <<cookie, cfgFile, is_running, wvCaller, wvCookies, wvSaved>>
    /\ UNCHANGED <<nmsVars, mergeVars, tmVars, arrVars, cardVars, exVars, mdVars, taVars, tlVars, t2Vars, thVars, cfVars, rlVars>>

\* save: json.dump succeeds (return True) or raises (return False); the with
\* block releases the lock. Back in save_cookie, the outer with block
\* releases the lock once more and save_cookies returns.
save_write(t) ==
    /\ wvPc[t] = "save_locked"
    /\ \E ok \in BOOLEAN :
          /\ cfgFile' = IF ok THEN <<cookie>> ELSE cfgFile
          /\ wvSaved' = [wvSaved EXCEPT ![t] = ok]
    /\ config_lock' = "free"
    /\ IF wvCaller[t][1] = "on_closing"
       THEN /\ wvPc' = [wvPc EXCEPT ![t] = "closed"]
            /\ UNCHANGED wvCaller
       ELSE /\ wvCaller' = [wvCaller EXCEPT ![t] = Tail(wvCaller[t])]
            /\ wvPc' = [wvPc EXCEPT ![t] = AfterSaveCookies(wvCaller[t][2])]
    /\ UNCHANGED <<cookie, is_running, wvCookies>>
    /\ UNCHANGED <<nmsVars, mergeVars, tmVars, arrVars, cardVars, exVars, mdVars, taVars, tlVars, t2Vars, thVars, cfVars, rlVars>>

\* config_check_loop: time.sleep(5); if self.is_running:
\* config.reload_if_needed(5.0), which calls load when the interval is over.
config_check_loop ==
    /\ wvPc["config_check"] = "sleep"
    /\ IF is_running
       THEN \E due \in BOOLEAN :
               wvPc' = [wvPc EXCEPT !["config_check"] = IF due THEN "load" ELSE "sleep"]
       ELSE wvPc' = [wvPc EXCEPT !["config_check"] = "exited"]
    /\ UNCHANGED <<config_lock, cookie, cfgFile, is_running, wvCaller, wvCookies, wvSaved>>
    /\ UNCHANGED <<nmsVars, mergeVars, tmVars, arrVars, cardVars, exVars, mdVars, taVars, tlVars, t2Vars, thVars, cfVars, rlVars>>

\* load: with self.config_lock:
load_enter ==
    /\ wvPc["config_check"] = "load"
    /\ Acquired(config_lock, "config_check")
    /\ config_lock' = "config_check"
    /\ wvPc' = [wvPc EXCEPT !["config_check"] = "load_locked"]
    /\ UNCHANGED <<cookie, cfgFile, is_running, wvCaller, wvCookies, wvSaved>>
    /\ UNCHANGED <<nmsVars, mergeVars, tmVars, arrVars, cardVars, exVars, mdVars, taVars, tlVars, t2Vars, thVars, cfVars, rlVars>>

\* load: self.cookie = data.get('cookie', {}) when the file exists and can be
\* read; the with block releases the lock.
load_read ==
    /\ wvPc["config_check"] = "load_locked"
    /\ \E ok \in BOOLEAN :
          cookie' = IF ok /\ cfgFile # <<>> THEN cfgFile[1] ELSE cookie
    /\ config_lock' = "free"
    /\ wvPc' = [wvPc EXCEPT !["config_check"] = "sleep"]
    /\ UNCHANGED <<cfgFile, is_running, wvCaller, wvCookies, wvSaved>>
    /\ UNCHANGED <<nmsVars, mergeVars, tmVars, arrVars, cardVars, exVars, mdVars, taVars, tlVars, t2Vars, thVars, cfVars, rlVars>>

\* The window is open, the threads are started (start_threads) and the
\* configuration was loaded from a file or not.
WvInit ==
    /\ config_lock = "free"
    /\ \E c \in {{}, {<<"sid", "0">>}} :
          /\ cookie = c
          /\ cfgFile \in {<<>>, <<c>>}
    /\ is_running = TRUE
    /\ wvPc = [t \in WvThreads |-> IF t = "main" THEN "window" ELSE "sleep"]
    /\ wvCaller = [t \in WvThreads |-> <<>>]
    /\ wvCookies = [t \in WvThreads |-> {}]
    /\ wvSaved = [t \in WvThreads |-> FALSE]

\* A step of thread t, as the scheduler sees it.
WvStep(t) ==
    \/ t = "cookie_save" /\ cookie_save_loop
    \/ save_cookies(t)
    \/ save_cookie(t)
    \/ save_enter(t)
    \/ save_write(t)
    \/ t = "config_check" /\ (config_check_loop \/ load_enter \/ load_read)

-----------------------------------------------------------------------------
(* Claim on Config.save_cookie *)

\* Thread t is inside a call of config.save_cookie.
InSaveCookie(t) ==
    \/ wvPc[t] = "save_cookie"
    \/ wvPc[t] \in {"save", "save_locked"} /\ wvCaller[t][1] = "save_cookie"

\* C20: Config.save_cookie(cookie) always returns; in particular on_closing,
\* which calls save_cookies and then config.save(), runs to completion, and
\* no thread is left blocked forever on config_lock.
C20_SaveCookieReturns ==
    /\ \A t \in {"main", "cookie_save"} : InSaveCookie(t) ~> ~InSaveCookie(t)
    /\ (wvPc["main"] = "save_cookies") ~> (wvPc["main"] = "closed")
    /\ (wvPc["config_check"] = "load") ~> (wvPc["config_check"] = "sleep")

-----------------------------------------------------------------------------
(* The tuning loops: MapDetectionApp.run_detector_with_trackbars,
   ArrowDetectionApp.run_detector_with_trackbars and
   ColorDebugger.debug_with_trackbars *)

\* Width and height of the original image, in pixels.
TlImageSize == 12

\* The side the enlarged ROI view is scaled to.
target_size == 800

\* Trackbar positions: the ROI and one detection parameter.
TlTrackbars ==
    [roi_x : {0, 1, TlImageSize - 1}, roi_y : {0, 2},
     roi_w : {0, 10, TlImageSize}, roi_h : {TlImageSize}, p : {0, 1}]

\* ROI-local positions a detection can return.
TlLocals == {[x |-> 0, y |-> 0], [x |-> 3, y |-> 5]}

\* roi_x = max(0, min(roi_x, w - 10)); roi_w = max(10, min(roi_w, w - roi_x)),
\* and the same for y and h.
ValidateRoi(tb) ==
    LET x == Max2(0, Min2(tb.roi_x, TlImageSize - 10))
        y == Max2(0, Min2(tb.roi_y, TlImageSize - 10))
    IN [x |-> x, y |-> y,
        w |-> Max2(10, Min2(tb.roi_w, TlImageSize - x)),
        h |-> Max2(10, Min2(tb.roi_h, TlImageSize - y))]

\* The tuple that is compared with the last one: the map and arrow loops
\* take the validated ROI, the colour loop the trackbar positions.
ParamTuple(app, tb) ==
    IF app = "hsv"
    THEN <<tb.p, tb.roi_x, tb.roi_y, tb.roi_w, tb.roi_h>>
    ELSE LET r == ValidateRoi(tb) IN <<tb.p, r.x, r.y, r.w, r.h>>

ParamsChangedRoiOnly(current, last) == last = <<>> \/ current[2] # last[1][2]

\* if current_params != last_params
ParamsChanged(current, last) == last # <<current>>

\* The number of pixels of original_image[y:y+h, x:x+w] along one axis.
SliceLen(start, len) == Max2(0, Min2(start + len, TlImageSize) - Min2(start, TlImageSize))

\* int(v * roi_scale), roi_scale = max(target_size / roi_w, target_size / roi_h, 1.0)
ScaleToView(v, roi) ==
    IF Min2(roi.w, roi.h) <= target_size
    THEN (v * target_size) \div Min2(roi.w, roi.h)
    ELSE v

\* The top of an iteration: the trackbars are read and compared.
tl_read ==
    /\ tlPc = "read"
    /\ current_params' = ParamTuple(tlApp, trackbars)
    /\ tlPrevious' = last_params
    /\ tlRan' = FALSE
    /\ tlPc' = IF ParamsChanged(ParamTuple(tlApp, trackbars), last_params)
               THEN "process" ELSE "show"
    /\ UNCHANGED <<tlApp, trackbars, last_params, cached_display, cached_arrow,
                   tlDetected, tlPrinted, tlSaved, tlShown>>
    /\ UNCHANGED <<nmsVars, mergeVars, tmVars, arrVars, cardVars, exVars, mdVars, taVars, wvVars, t2Vars, thVars, cfVars, rlVars>>

\* The map loop's processing: detect returns, or raises or never returns and
\* the loop is over.
tl_process_map ==
    /\ tlPc = "process"
    /\ tlApp = "map"
    /\ tlRan' = TRUE
    /\ \/ /\ cached_display' = <<current_params>>
          /\ last_params' = <<current_params>>
          /\ tlPc' = "show"
       \/ /\ tlPc' = "stopped"
          /\ UNCHANGED <<cached_display, last_params>>
    /\ UNCHANGED <<tlApp, trackbars, current_params, cached_arrow, tlDetected,
                   tlPrinted, tlSaved, tlPrevious, tlShown>>
    /\ UNCHANGED <<nmsVars, mergeVars, tmVars, arrVars, cardVars, exVars, mdVars, taVars, wvVars, t2Vars, thVars, cfVars, rlVars>>

\* The arrow loop's processing. The position is translated to the original
\* image, the display is built, and then arrow_scaled = arrow.copy() is a
\* shallow copy: arrow_scaled['position'] is the dict arrow['position'], and
\* the assignments for the enlarged view write into it.
tl_process_arrow ==
    /\ tlPc = "process"
    /\ tlApp = "arrow"
    /\ tlRan' = TRUE
    /\ \/ \E found \in BOOLEAN : \E local \in TlLocals :
            LET roi == ValidateRoi(trackbars)
                translated == [x |-> local.x + roi.x, y |-> local.y + roi.y]
                scaled == [x |-> ScaleToView(translated.x - roi.x, roi),
                           y |-> ScaleToView(translated.y - roi.y, roi)]
            IN /\ cached_display' = <<current_params>>
               /\ last_params' = <<current_params>>
               /\ IF found
                  THEN /\ cached_arrow' = [found |-> TRUE, position |-> scaled]
                       /\ tlDetected' = <<[local |-> local, roi |-> roi]>>
                       /\ tlPrinted' = <<scaled>>
                  ELSE /\ cached_arrow' = [found |-> FALSE, position |-> [x |-> 0, y |-> 0]]
                       /\ tlDetected' = <<>>
                       /\ tlPrinted' = <<>>
               /\ tlPc' = "show"
       \/ /\ tlPc' = "stopped"
          /\ UNCHANGED <<cached_display, last_params, cached_arrow, tlDetected, tlPrinted>>
    /\ UNCHANGED <<tlApp, trackbars, current_params, tlSaved, tlPrevious, tlShown>>
    /\ UNCHANGED <<nmsVars, mergeVars, tmVars, arrVars, cardVars, exVars, mdVars, taVars, wvVars, t2Vars, thVars, cfVars, rlVars>>

\* The colour loop's processing: last_values is set first; an empty ROI image
\* ends the iteration with continue.
tl_process_hsv ==
    /\ tlPc = "process"
    /\ tlApp = "hsv"
    /\ tlRan' = TRUE
    /\ last_params' = <<current_params>>
    /\ LET roi == ValidateRoi(trackbars)
       IN IF SliceLen(roi.x, roi.w) * SliceLen(roi.y, roi.h) = 0
          THEN /\ tlPc' = "read"
               /\ UNCHANGED cached_display
          ELSE /\ cached_display' = <<current_params>>
               /\ tlPc' = "show"
    /\ UNCHANGED <<tlApp, trackbars, current_params, cached_arrow, tlDetected,
                   tlPrinted, tlSaved, tlPrevious, tlShown>>
    /\ UNCHANGED <<nmsVars, mergeVars, tmVars, arrVars, cardVars, exVars, mdVars, taVars, wvVars, t2Vars, thVars, cfVars, rlVars>>

\* if cached_display is not None: cv2.imshow(display_window, cached_display)
tl_show ==
    /\ tlPc = "show"
    /\ tlShown' = IF cached_display # <<>> THEN cached_display ELSE tlShown
    /\ tlPc' = "key"
    /\ UNCHANGED <<tlApp, trackbars, last_params, current_params, cached_display,
                   cached_arrow, tlDetected, tlPrinted, tlSaved, tlPrevious, tlRan>>
    /\ UNCHANGED <<nmsVars, mergeVars, tmVars, arrVars, cardVars, exVars, mdVars, taVars, wvVars, t2Vars, thVars, cfVars, rlVars>>

\* cv2.waitKey: the user moves trackbars or presses a key.
tl_wait_key ==
    /\ tlPc = "key"
    /\ \E key \in {"none", "q", "s", "r"} :
         CASE key = "q" ->
                /\ tlPc' = "exit"
                /\ UNCHANGED <<trackbars, tlSaved>>
           [] key = "s" ->
                /\ tlPc' = "read"
                /\ tlSaved' = IF tlApp = "arrow" /\ cached_display # <<>>
                                 /\ cached_arrow.found
                              THEN <<[position |-> cached_arrow.position,
                                      detected |-> tlDetected[1]]>>
                              ELSE tlSaved
                /\ UNCHANGED trackbars
           [] key = "r" ->
                /\ tlPc' = "read"
                /\ trackbars' = IF tlApp = "hsv" THEN trackbars
                                ELSE [trackbars EXCEPT !.roi_x = 0, !.roi_y = 0,
                                         !.roi_w = TlImageSize, !.roi_h = TlImageSize]
                /\ UNCHANGED tlSaved
           [] OTHER ->
                /\ tlPc' = "read"
                /\ trackbars' \in TlTrackbars
                /\ UNCHANGED tlSaved
    /\ UNCHANGED <<tlApp, last_params, current_params, cached_display,
                   cached_arrow, tlDetected, tlPrinted, tlPrevious, tlRan, tlShown>>
    /\ UNCHANGED <<nmsVars, mergeVars, tmVars, arrVars, cardVars, exVars, mdVars, taVars, wvVars, t2Vars, thVars, cfVars, rlVars>>

TlInit ==
    /\ tlApp \in {"map", "arrow", "hsv"}
    /\ trackbars \in TlTrackbars
    /\ last_params = <<>>
    /\ current_params = <<>>
    /\ cached_display = <<>>
    /\ cached_arrow = [found |-> FALSE, position |-> [x |-> 0, y |-> 0]]
    /\ tlDetected = <<>>
    /\ tlPrinted = <<>>
    /\ tlSaved = <<>>
    /\ tlPrevious = <<>>
    /\ tlRan = FALSE
    /\ tlShown = <<>>
    /\ tlPc = "read"

-----------------------------------------------------------------------------
(* Claims on the tuning loops *)

\* The detected position in original-image coordinates: the ROI-local
\* position plus (roi_x, roi_y).
TlTranslated(detected) ==
    [x |-> detected.local.x + detected.roi.x,
     y |-> detected.local.y + detected.roi.y]

\* C23: a detection result is not changed after it has been translated to
\* original-image coordinates: building the enlarged ROI view leaves
\* arrow['position'] unchanged, so the position that is printed, cached in
\* cached_arrow and written by _save_results equals the ROI-local detected
\* position plus (roi_x, roi_y), for every ROI offset and enlargement factor.
C23_PositionKeptAfterTranslation ==
    /\ (tlApp = "arrow" /\ tlDetected # <<>>) =>
          /\ cached_arrow.position = TlTranslated(tlDetected[1])
          /\ tlPrinted = <<TlTranslated(tlDetected[1])>>
    /\ (tlApp = "arrow" /\ tlSaved # <<>>) =>
          tlSaved[1].position = TlTranslated(tlSaved[1].detected)

\* C30: in the tuning loops detection is re-run in a loop iteration iff the
\* parameter-and-ROI tuple read in that iteration differs from the tuple of
\* the last processed iteration (always on the first iteration), so whenever
\* a frame is shown the cached display is the detection result for the most
\* recently read parameters.
C30_RerunIffParamsDiffer ==
    /\ tlPc \in {"process", "stopped"} => tlPrevious # <<current_params>>
    /\ tlPc \in {"show", "key"} => (tlRan <=> tlPrevious # <<current_params>>)
    /\ tlPc \in {"show", "key"} => cached_display = <<current_params>>
    /\ tlPc = "key" => tlShown = <<current_params>>

\* A frame on screen in the arrow loop after an iteration that ran the
\* detection again because a trackbar had been moved, a result having been
\* saved before.
C30_Witness ==
    /\ tlPc = "key"
    /\ tlRan
    /\ tlPrevious # <<>>
    /\ tlShown = <<current_params>>
    /\ tlSaved # <<>>

-----------------------------------------------------------------------------
(* AdvancedColorDebugger.debug_with_trackbars: the ROI of every iteration *)

\* Width and height of the original image, in pixels.
T2ImageWidth == 120
T2ImageHeight == 110

\* Positions of the ROI trackbars: each runs from 0 to the image's width or
\* height.
T2Trackbars ==
    [roi_x : {0, 50, T2ImageWidth}, roi_w : {0, 50, T2ImageWidth},
     roi_y : {0, 50, T2ImageHeight}, roi_h : {0, 50, T2ImageHeight}]

\* roi_w = min(roi_w, width - roi_x); roi_h = min(roi_h, height - roi_y);
\* if roi_w <= 0 or roi_h <= 0: roi_w = 100; roi_h = 100
RoiRect(tb) ==
    LET w == Min2(tb.roi_w, T2ImageWidth - tb.roi_x)
        h == Min2(tb.roi_h, T2ImageHeight - tb.roi_y)
    IN IF w <= 0 \/ h <= 0
       THEN <<tb.roi_x, tb.roi_y, 100, 100>>
       ELSE <<tb.roi_x, tb.roi_y, w, h>>

\* The number of elements of a[start : start + len] for a of length size.
SliceOf(start, len, size) == Max2(0, Min2(start + len, size) - Min2(start, size))

\* The ROI trackbars are read and self.roi_rect is set.
t2_read_roi ==
    /\ t2Pc = "read"
    /\ roi_rect' = RoiRect(t2Trackbars)
    /\ t2Pc' = "extract"
    /\ UNCHANGED <<t2Trackbars, t2Image>>
    /\ UNCHANGED <<nmsVars, mergeVars, tmVars, arrVars, cardVars, exVars, mdVars, taVars, wvVars, tlVars, thVars, cfVars, rlVars>>

\* image = self.original_image[y:y+h, x:x+w].copy(); cv2.cvtColor raises
\* cv2.error for an empty image.
t2_extract ==
    /\ t2Pc = "extract"
    /\ t2Image' = <<SliceOf(roi_rect[1], roi_rect[3], T2ImageWidth),
                    SliceOf(roi_rect[2], roi_rect[4], T2ImageHeight)>>
    /\ t2Pc' = IF SliceOf(roi_rect[1], roi_rect[3], T2ImageWidth) = 0
                  \/ SliceOf(roi_rect[2], roi_rect[4], T2ImageHeight) = 0
               THEN "raised" ELSE "key"
    /\ UNCHANGED <<t2Trackbars, roi_rect>>
    /\ UNCHANGED <<nmsVars, mergeVars, tmVars, arrVars, cardVars, exVars, mdVars, taVars, wvVars, tlVars, thVars, cfVars, rlVars>>

\* cv2.waitKey: the user moves the ROI trackbars or quits.
t2_wait_key ==
    /\ t2Pc = "key"
    /\ \/ /\ t2Trackbars' \in T2Trackbars
          /\ t2Pc' = "read"
       \/ /\ t2Pc' = "exit"
          /\ UNCHANGED t2Trackbars
    /\ UNCHANGED <<roi_rect, t2Image>>
    /\ UNCHANGED <<nmsVars, mergeVars, tmVars, arrVars, cardVars, exVars, mdVars, taVars, wvVars, tlVars, thVars, cfVars, rlVars>>

\* The debugger was started with a ROI, which the trackbars show.
T2Init ==
    /\ t2Trackbars \in {tb \in T2Trackbars :
                          /\ tb.roi_w >= 1 /\ tb.roi_x + tb.roi_w <= T2ImageWidth
                          /\ tb.roi_h >= 1 /\ tb.roi_y + tb.roi_h <= T2ImageHeight}
    /\ roi_rect = <<t2Trackbars.roi_x, t2Trackbars.roi_y, t2Trackbars.roi_w, t2Trackbars.roi_h>>
    /\ t2Image = <<>>
    /\ t2Pc = "read"

\* C28: for every position of the ROI_X, ROI_Y, ROI_W and ROI_H trackbars
\* the ROI rectangle used to slice the image is non-empty and lies entirely
\* inside the image: 0 <= x, 0 <= y, w >= 1, h >= 1, x + w <= image width,
\* y + h <= image height.
C28_RoiInsideImage ==
    t2Pc \in {"extract", "key", "raised", "exit"} =>
        /\ roi_rect[1] >= 0
        /\ roi_rect[2] >= 0
        /\ roi_rect[3] >= 1
        /\ roi_rect[4] >= 1
        /\ roi_rect[1] + roi_rect[3] <= T2ImageWidth
        /\ roi_rect[2] + roi_rect[4] <= T2ImageHeight
        /\ t2Pc # "raised"

-----------------------------------------------------------------------------
(* WebViewCapture.on_loaded, start_threads, stop_threads and the worker
   loops *)

\* The most loaded events of a window that are followed.
MaxLoaded == 2

\* The threads start_threads creates.
ThreadKinds == {"CaptureThread", "CookieSaveThread", "ConfigCheckThread"}

\* start_threads: three new threads are created and started, whatever is
\* running already; the thread objects of an earlier call are only replaced
\* in self.capture_thread etc., the threads go on.
Started(threads, n) ==
    [t \in DOMAIN threads \cup {<<k, n>> : k \in ThreadKinds} |->
        IF t \in DOMAIN threads THEN threads[t] ELSE "check"]

\* on_loaded: the loaded event fires (for every page load); start_threads()
\* sets is_running and starts the threads.
th_on_loaded ==
    /\ ~thClosed
    /\ thLoaded < MaxLoaded
    /\ thLoaded' = thLoaded + 1
    /\ thIsRunning' = TRUE
    /\ thThreads' = Started(thThreads, thLoaded + 1)
    /\ UNCHANGED thClosed
    /\ UNCHANGED <<nmsVars, mergeVars, tmVars, arrVars, cardVars, exVars, mdVars, taVars, wvVars, tlVars, t2Vars, cfVars, rlVars>>

\* `while self.is_running:` of a worker loop: the thread goes on or ends.
th_loop_test ==
    /\ \E t \in DOMAIN thThreads :
          /\ thThreads[t] = "check"
          /\ thThreads' = IF thIsRunning
                          THEN [thThreads EXCEPT ![t] = "body"]
                          ELSE [u \in DOMAIN thThreads \ {t} |-> thThreads[u]]
    /\ UNCHANGED <<thLoaded, thIsRunning, thClosed>>
    /\ UNCHANGED <<nmsVars, mergeVars, tmVars, arrVars, cardVars, exVars, mdVars, taVars, wvVars, tlVars, t2Vars, cfVars, rlVars>>

\* The body of a worker loop: sleep and work.
th_loop_body ==
    /\ \E t \in DOMAIN thThreads :
          /\ thThreads[t] = "body"
          /\ thThreads' = [thThreads EXCEPT ![t] = "check"]
    /\ UNCHANGED <<thLoaded, thIsRunning, thClosed>>
    /\ UNCHANGED <<nmsVars, mergeVars, tmVars, arrVars, cardVars, exVars, mdVars, taVars, wvVars, tlVars, t2Vars, cfVars, rlVars>>

\* on_closing: stop_threads() clears is_running.
th_on_closing ==
    /\ ~thClosed
    /\ thLoaded > 0
    /\ thIsRunning' = FALSE
    /\ thClosed' = TRUE
    /\ UNCHANGED <<thLoaded, thThreads>>
    /\ UNCHANGED <<nmsVars, mergeVars, tmVars, arrVars, cardVars, exVars, mdVars, taVars, wvVars, tlVars, t2Vars, cfVars, rlVars>>

\* __init__: is_running = False, no thread.
ThInit ==
    /\ thLoaded = 0
    /\ thIsRunning = FALSE
    /\ thThreads = [t \in {} |-> "check"]
    /\ thClosed = FALSE

\* C29: at any time at most one capture thread, one cookie-save thread and
\* one config-check thread of a WebViewCapture are running, even if the
\* window's loaded event fires more than once.
C29_OneThreadOfEachKind ==
    \A k \in ThreadKinds : Cardinality({t \in DOMAIN thThreads : t[1] = k}) <= 1

-----------------------------------------------------------------------------
(* Config.load and Config.save *)

\* The last reading of the clock that is followed.
MaxCfClock == 2

CfPaths == {"config.json", "other.json"}

\* What a path can hold: no file, text that is not JSON, a JSON value that
\* is not an object, or an object with the fields of a configuration.
CfContents == {"missing", "invalid json", "json list", "settings A", "settings B"}

CfIsSettings(content) == content \in {"settings A", "settings B"}

\* self.config_file = config_file is the first statement of load's try block.
ConfigFileAfterLoad(old, path, ok) == path

\* load(config_file): returns False for a missing file, for invalid JSON and
\* for any other exception (data.get on a value that is not a dict raises
\* AttributeError before a field is assigned).
config_load ==
    /\ \E path \in CfPaths :
          LET ok == CfIsSettings(cfFiles[path])
          IN /\ cfBefore' = [config_file |-> config_file, data |-> cfData,
                             last_load_time |-> last_load_time]
             /\ config_file' = ConfigFileAfterLoad(config_file, path, ok)
             /\ cfData' = IF ok THEN cfFiles[path] ELSE cfData
             /\ last_load_time' = IF ok THEN cfClock ELSE last_load_time
             /\ cfLoadedFile' = IF ok THEN path ELSE cfLoadedFile
             /\ cfLast' = [op |-> "load", path |-> path, ok |-> ok]
    /\ UNCHANGED <<cfFiles, cfClock>>
    /\ UNCHANGED <<nmsVars, mergeVars, tmVars, arrVars, cardVars, exVars, mdVars, taVars, wvVars, tlVars, t2Vars, thVars, rlVars>>

\* save(): config_file is None, so self.config_file is written; open('')
\* raises and save returns False.
config_save ==
    /\ cfBefore' = [config_file |-> config_file, data |-> cfData,
                    last_load_time |-> last_load_time]
    /\ IF config_file \in CfPaths
       THEN \E ok \in BOOLEAN :
               /\ cfFiles' = IF ok THEN [cfFiles EXCEPT ![config_file] = cfData]
                             ELSE cfFiles
               /\ cfLast' = [op |-> "save", path |-> config_file, ok |-> ok]
       ELSE /\ cfLast' = [op |-> "save", path |-> config_file, ok |-> FALSE]
            /\ UNCHANGED cfFiles
    /\ UNCHANGED <<config_file, cfData, last_load_time, cfClock, cfLoadedFile>>
    /\ UNCHANGED <<nmsVars, mergeVars, tmVars, arrVars, cardVars, exVars, mdVars, taVars, wvVars, tlVars, t2Vars, thVars, rlVars>>

\* Time passes.
cf_tick ==
    /\ cfClock < MaxCfClock
    /\ cfClock' = cfClock + 1
    /\ UNCHANGED <<config_file, cfData, last_load_time, cfFiles, cfLast, cfBefore,
                   cfLoadedFile>>
    /\ UNCHANGED <<nmsVars, mergeVars, tmVars, arrVars, cardVars, exVars, mdVars, taVars, wvVars, tlVars, t2Vars, thVars, rlVars>>

\* Config(): the defaults; the files are what they are.
CfInit ==
    /\ config_file = ""
    /\ cfData = "defaults"
    /\ last_load_time = 0
    /\ cfFiles \in [CfPaths -> CfContents]
    /\ cfClock = 1
    /\ cfLast = [op |-> "none", path |-> "", ok |-> FALSE]
    /\ cfBefore = [config_file |-> "", data |-> "defaults", last_load_time |-> 0]
    /\ cfLoadedFile = ""

\* C27: a Config.load call that fails (file missing, invalid JSON, or any
\* other exception) returns False and leaves every field of the Config
\* unchanged: url, cookie, frequency, stats, target, enable, slots,
\* screenshot, last_load_time and config_file, so that a later save() without
\* argument still writes to the previously loaded file.
C27_FailedLoadChangesNothing ==
    /\ (cfLast.op = "load" /\ ~cfLast.ok) =>
          /\ cfData = cfBefore.data
          /\ last_load_time = cfBefore.last_load_time
          /\ config_file = cfBefore.config_file
    /\ (cfLast.op = "save" /\ cfLoadedFile # "") => cfLast.path = cfLoadedFile

-----------------------------------------------------------------------------
(* Config.reload_if_needed, called by the capture thread and the
   config-check thread *)

\* The last reading of the clock that is followed, and the number of loads
\* that are recorded.
MaxRlClock == 11
MaxRlLoads == 3

\* check_interval=5.0 at both call sites.
check_interval == 5

RlThreads == {"capture_loop", "config_check_loop"}

\* current_time = time.time(); the test of the interval. Neither is under
\* config_lock.
rl_check(t) ==
    /\ rlPc[t] = "call"
    /\ rlCurrentTime' = [rlCurrentTime EXCEPT ![t] = rlClock]
    /\ rlPc' = [rlPc EXCEPT ![t] =
                   IF rlClock - rlLastLoadTime >= check_interval
                   THEN "load" ELSE "call"]
    /\ UNCHANGED <<rlClock, rlLastLoadTime, rlLoads>>
    /\ UNCHANGED <<nmsVars, mergeVars, tmVars, arrVars, cardVars, exVars, mdVars, taVars, wvVars, tlVars, t2Vars, thVars, cfVars>>

\* return self.load(self.config_file): the whole of load runs under
\* config_lock; last_load_time is assigned only when the file was read.
rl_load(t) ==
    /\ rlPc[t] = "load"
    /\ Len(rlLoads) < MaxRlLoads
    /\ \E ok \in BOOLEAN :
          rlLastLoadTime' = IF ok THEN rlClock ELSE rlLastLoadTime
    /\ rlLoads' = Append(rlLoads, rlClock)
    /\ rlPc' = [rlPc EXCEPT ![t] = "call"]
    /\ UNCHANGED <<rlClock, rlCurrentTime>>
    /\ UNCHANGED <<nmsVars, mergeVars, tmVars, arrVars, cardVars, exVars, mdVars, taVars, wvVars, tlVars, t2Vars, thVars, cfVars>>

\* Time passes.
rl_tick ==
    /\ rlClock < MaxRlClock
    /\ rlClock' = rlClock + 1
    /\ UNCHANGED <<rlLastLoadTime, rlCurrentTime, rlPc, rlLoads>>
    /\ UNCHANGED <<nmsVars, mergeVars, tmVars, arrVars, cardVars, exVars, mdVars, taVars, wvVars, tlVars, t2Vars, thVars, cfVars>>

\* The configuration was loaded when the program started.
RlInit ==
    /\ rlClock = 0
    /\ rlLastLoadTime = 0
    /\ rlCurrentTime = [t \in RlThreads |-> 0]
    /\ rlPc = [t \in RlThreads |-> "call"]
    /\ rlLoads = <<>>

\* C25: Config.reload_if_needed reloads the file only when at least
\* check_interval seconds have passed since the last load: with the capture
\* thread and the config-check thread both calling it concurrently, any two
\* loads it triggers are separated by at least check_interval.
C25_LoadsSeparatedByInterval ==
    \A i, j \in DOMAIN rlLoads :
        i < j => rlLoads[j] - rlLoads[i] >= check_interval

-----------------------------------------------------------------------------
(* Specifications *)

InitNMS == NmsInit /\ MergeIdle /\ TmIdle /\ ArrowIdle /\ CardIdle /\ ExIdle /\ MdIdle /\ TaIdle /\ WvIdle /\ TlIdle /\ T2Idle /\ ThIdle /\ CfIdle /\ RlIdle

NextNMS ==
    \/ nms_boxes_begin
    \/ nms_boxes_loop
    \/ non_max_suppression_begin
    \/ non_max_suppression_loop
    \/ nms_begin
    \/ nms_loop

SpecNMS == InitNMS /\ [][NextNMS]_vars

InitMerge == MergeInit /\ NmsIdle /\ TmIdle /\ ArrowIdle /\ CardIdle /\ ExIdle /\ MdIdle /\ TaIdle /\ WvIdle /\ TlIdle /\ T2Idle /\ ThIdle /\ CfIdle /\ RlIdle

NextMerge ==
    \/ merge_begin
    \/ merge_loop
    \/ merge_again

SpecMerge == InitMerge /\ [][NextMerge]_vars

InitTM == TmInit /\ NmsIdle /\ MergeIdle /\ ArrowIdle /\ CardIdle /\ ExIdle /\ MdIdle /\ TaIdle /\ WvIdle /\ TlIdle /\ T2Idle /\ ThIdle /\ CfIdle /\ RlIdle

NextTM ==
    \/ tm_begin
    \/ tm_scale
    \/ tm_scales_exhausted
    \/ tm_return

SpecTM == InitTM /\ [][NextTM]_vars

InitArrow == ArrowInit /\ NmsIdle /\ MergeIdle /\ TmIdle /\ CardIdle /\ ExIdle /\ MdIdle /\ TaIdle /\ WvIdle /\ TlIdle /\ T2Idle /\ ThIdle /\ CfIdle /\ RlIdle

NextArrow ==
    \/ direction_min_area_rect
    \/ direction_convex_hull
    \/ direction_pca
    \/ draw_results

SpecArrow == InitArrow /\ [][NextArrow]_vars

InitCardinal == CardInit /\ NmsIdle /\ MergeIdle /\ TmIdle /\ ArrowIdle /\ ExIdle /\ MdIdle /\ TaIdle /\ WvIdle /\ TlIdle /\ T2Idle /\ ThIdle /\ CfIdle /\ RlIdle

NextCardinal == angle_to_cardinal

SpecCardinal == InitCardinal /\ [][NextCardinal]_vars

InitExtract == ExInit /\ NmsIdle /\ MergeIdle /\ TmIdle /\ ArrowIdle /\ CardIdle /\ MdIdle /\ TaIdle /\ WvIdle /\ TlIdle /\ T2Idle /\ ThIdle /\ CfIdle /\ RlIdle

NextExtract ==
    \/ ex_begin
    \/ hsv_detect_loop
    \/ map_detect_loop
    \/ ex_return

SpecExtract == InitExtract /\ [][NextExtract]_vars

InitMD ==
    MdInit /\ NmsIdle /\ MergeIdle /\ TmIdle /\ ArrowIdle /\ CardIdle /\ ExIdle /\ TaIdle /\ WvIdle /\ TlIdle /\ T2Idle /\ ThIdle /\ CfIdle /\ RlIdle

NextMD ==
    \/ md_begin
    \/ md_scale
    \/ md_return

SpecMD == InitMD /\ [][NextMD]_vars

\* The call keeps running: a step that is possible is taken.
SpecMDFair == SpecMD /\ WF_vars(NextMD)

InitTA ==
    TaInit /\ NmsIdle /\ MergeIdle /\ TmIdle /\ ArrowIdle /\ CardIdle /\ ExIdle /\ MdIdle /\ WvIdle /\ TlIdle /\ T2Idle /\ ThIdle /\ CfIdle /\ RlIdle

NextTA ==
    \/ ta_begin
    \/ ta_scale
    \/ ta_next_angle
    \/ ta_return

SpecTA == InitTA /\ [][NextTA]_vars

\* The three multi-scale template searches: a call of any one of them.
InitSearch ==
    /\ \/ TmInit /\ MdIdle /\ TaIdle
       \/ MdInit /\ TmIdle /\ TaIdle
       \/ TaInit /\ TmIdle /\ MdIdle
    /\ NmsIdle /\ MergeIdle /\ ArrowIdle /\ CardIdle /\ ExIdle /\ WvIdle /\ TlIdle /\ T2Idle /\ ThIdle /\ CfIdle /\ RlIdle

NextSearch ==
    \/ tm_begin
    \/ tm_scale
    \/ tm_scales_exhausted
    \/ tm_return
    \/ md_begin
    \/ md_scale
    \/ md_return
    \/ ta_begin
    \/ ta_scale
    \/ ta_next_angle
    \/ ta_return

SpecSearch == InitSearch /\ [][NextSearch]_vars

InitWebView ==
    WvInit /\ NmsIdle /\ MergeIdle /\ TmIdle /\ ArrowIdle /\ CardIdle /\ ExIdle /\ MdIdle /\ TaIdle /\ TlIdle /\ T2Idle /\ ThIdle /\ CfIdle /\ RlIdle

NextWebView ==
    \/ on_closing
    \/ cookie_save_loop
    \/ \E t \in {"main", "cookie_save"} : save_cookies(t)
    \/ \E t \in {"main", "cookie_save"} : save_cookie(t)
    \/ \E t \in {"main", "cookie_save"} : save_enter(t)
    \/ \E t \in {"main", "cookie_save"} : save_write(t)
    \/ config_check_loop
    \/ load_enter
    \/ load_read

SpecWebView == InitWebView /\ [][NextWebView]_vars

\* Every thread that can take a step again and again takes one: the
\* scheduler starves no thread, and a lock that is released again and again
\* is obtained. Closing the window is up to the user.
SpecWebViewFair ==
    SpecWebView /\ \A t \in WvThreads : SF_vars(WvStep(t))

InitTuning ==
    TlInit /\ NmsIdle /\ MergeIdle /\ TmIdle /\ ArrowIdle /\ CardIdle /\ ExIdle /\ MdIdle /\ TaIdle /\ WvIdle /\ T2Idle /\ ThIdle /\ CfIdle /\ RlIdle

NextTuning ==
    \/ tl_read
    \/ tl_process_map
    \/ tl_process_arrow
    \/ tl_process_hsv
    \/ tl_show
    \/ tl_wait_key

SpecTuning == InitTuning /\ [][NextTuning]_vars

InitColor2 ==
    T2Init /\ NmsIdle /\ MergeIdle /\ TmIdle /\ ArrowIdle /\ CardIdle /\ ExIdle /\ MdIdle /\ TaIdle /\ WvIdle /\ TlIdle /\ ThIdle /\ CfIdle /\ RlIdle

NextColor2 ==
    \/ t2_read_roi
    \/ t2_extract
    \/ t2_wait_key

SpecColor2 == InitColor2 /\ [][NextColor2]_vars

InitThreads ==
    ThInit /\ NmsIdle /\ MergeIdle /\ TmIdle /\ ArrowIdle /\ CardIdle /\ ExIdle /\ MdIdle /\ TaIdle /\ WvIdle /\ TlIdle /\ T2Idle /\ CfIdle /\ RlIdle

NextThreads ==
    \/ th_on_loaded
    \/ th_loop_test
    \/ th_loop_body
    \/ th_on_closing

SpecThreads == InitThreads /\ [][NextThreads]_vars

InitConfig ==
    CfInit /\ NmsIdle /\ MergeIdle /\ TmIdle /\ ArrowIdle /\ CardIdle /\ ExIdle /\ MdIdle /\ TaIdle /\ WvIdle /\ TlIdle /\ T2Idle /\ ThIdle /\ RlIdle

NextConfig ==
    \/ config_load
    \/ config_save
    \/ cf_tick

SpecConfig == InitConfig /\ [][NextConfig]_vars

InitReload ==
    RlInit /\ NmsIdle /\ MergeIdle /\ TmIdle /\ ArrowIdle /\ CardIdle /\ ExIdle /\ MdIdle /\ TaIdle /\ WvIdle /\ TlIdle /\ T2Idle /\ ThIdle /\ CfIdle

NextReload ==
    \/ \E t \in RlThreads : rl_check(t)
    \/ \E t \in RlThreads : rl_load(t)
    \/ rl_tick

SpecReload == InitReload /\ [][NextReload]_vars

====
